---------------------------- MODULE Spec2Model ----------------------------
(***************************************************************************)
(* Model of the dibujapy map generators: dibuja.py (multi-dataset entry    *)
(* point), mapa.py and mapa_baja_california.py (single-dataset entry       *)
(* points).                                                                *)
(*                                                                         *)
(* Text typed at a prompt is a sequence of one-character strings, so that  *)
(* strip(), split(), int() and float() are computed as Python computes     *)
(* them.  A float is a record [nan, v]: v is the value in whole degrees    *)
(* and nan marks the IEEE not-a-number that float("nan") yields (every     *)
(* comparison with it is false).  Decimal fractions, exponents and         *)
(* infinities are outside the alphabet the prompts are fed with.           *)
(*                                                                         *)
(* An archive on disk is "ausente" (no file), "completo" (a whole zip) or  *)
(* "parcial" (a file that is there but is not a whole zip).                *)
(***************************************************************************)
EXTENDS Integers, Sequences, FiniteSets, TLC

\* ------------------------------------------------------------------ bounds
\* Number of program runs a behaviour of Spec holds.
MaxRuns == 2
\* Number of calls of the fetcher a behaviour of SpecFetch holds.
MaxLlamadas == 3
\* Longest text typed at the palette prompt.
MaxLen == 2
\* Most entries of the "zonas" list of a zone file.
MaxZonas == 2
\* Longest color text made of any characters of the color alphabet.
MaxColor == 4
\* Most rows of a table of a dataset archive.
MaxFilas == 2
\* Most zones of a run whose legend is laid out.
MaxLeyenda == 40
\* Longest text typed at the datasets prompt and at the zone layers prompt.
MaxTexto == 3

VARIABLES
    \* the file system (it outlives a run)
    archivo,          \* archivo[clave]: state of DATOS_DIR/<archivo of the dataset>
    archivoPaletas,   \* datos/paletas.json
    imagen,           \* mapa_baja_california.png: "ninguna" or the script that wrote it last
    \* history of the fetcher (it outlives a run)
    corridas,         \* runs started so far
    llamadas,         \* calls of the fetcher so far
    descargas,        \* descargas[clave]: downloads that succeeded so far
    removido,         \* removido[clave]: the archive was removed from outside
    \* the run in progress
    script,           \* "ninguno", "dibuja", "mapa", "mapa_bc"
    pc,               \* step the run is at
    pasos,            \* steps of __main__ executed so far, in order
    seleccion,        \* result of pedir_datasets
    pendientes,       \* rest of the for loop of descargar_datasets_seleccionados
    rutas,            \* keys of the dict rutas
    fallidas,         \* datasets whose download failed in this run
    ultimo,           \* the last call of the fetcher
    paletas,          \* result of cargar_paletas
    entradaPaleta,    \* text typed at the palette prompt
    paleta,           \* result of pedir_paleta
    entradasCoord,    \* the four texts typed at the coordinate prompts
    coords,           \* result of pedir_coordenadas
    coords2,          \* result of pedir_coordenadas on a second entry of the bounds
    datos,            \* keys of datos_cargados
    vacias,           \* loaded datasets whose filtered table has no row
    capas,            \* layers drawn by generar_mapa, back to front
    subtitulo,        \* layer names listed in the subtitle
    escrituras,       \* times this run wrote the image
    error,            \* exception that ended the run, or "ninguno"
    \* zones of interest (mapa.py)
    archivoCapas,     \* the registry DATOS_DIR/capas_zonas.json
    archivosZonas,    \* archivosZonas[name]: the zone file DATOS_DIR/<name>
    capasActivas,     \* result of pedir_zonas_activas
    zonas,            \* result of cargar_zonas
    visibles,         \* zonas_visibles of generar_mapa
    marcadores,       \* ellipses and id texts added by dibujar_zonas, in order
    filas,            \* rows written by dibujar_tabla, top to bottom
    conversion,       \* the last call of metros_a_grados and what it returned
    \* tables, texts typed and what the run leaves to read
    tablas,           \* tablas[clave]: the table gpd.read_file gave this run
    cargados,         \* datos_cargados: the filtered table of each loaded dataset
    rotulos,          \* city labels annotated by generar_mapa, in row order
    entradaDatasets,  \* text typed at the dataset prompt
    entradaZonas,     \* text typed at the zone layer prompt
    guardados,        \* calls of plt.savefig of this run: file name and dpi
    informe           \* 'Zonas dibujadas' of the final report: <<>> or <<n>>

varsDisco == <<archivo, archivoPaletas, imagen>>
varsHistoria == <<corridas, llamadas, descargas, removido>>
varsDescarga == <<seleccion, pendientes, rutas, fallidas, ultimo>>
varsPaleta == <<paletas, entradaPaleta, paleta>>
varsCoord == <<entradasCoord, coords, coords2>>
varsMapa == <<datos, vacias, capas, subtitulo, escrituras>>
varsZonas ==
    <<archivoCapas, archivosZonas, capasActivas, zonas, visibles, marcadores,
      filas, conversion>>
varsCarga ==
    <<tablas, cargados, rotulos, entradaDatasets, entradaZonas, guardados,
      informe>>
vars == <<archivo, archivoPaletas, imagen, corridas, llamadas, descargas, removido,
          script, pc, pasos, seleccion, pendientes, rutas, fallidas, ultimo,
          paletas, entradaPaleta, paleta, entradasCoord, coords, coords2,
          datos, vacias, capas, subtitulo, escrituras, error,
          archivoCapas, archivosZonas, capasActivas, zonas, visibles, marcadores,
          filas, conversion, tablas, cargados, rotulos, entradaDatasets,
          entradaZonas, guardados, informe>>

\* ------------------------------------------------------- text and numbers
Digitos == <<"0", "1", "2", "3", "4", "5", "6", "7", "8", "9">>

EsDigito(c) == \E d \in 1..10 : Digitos[d] = c

ValorDigito(c) == (CHOOSE d \in 1..10 : Digitos[d] = c) - 1

RECURSIVE lstrip(_)
lstrip(s) == IF s # <<>> /\ Head(s) = " " THEN lstrip(Tail(s)) ELSE s

RECURSIVE rstrip(_)
rstrip(s) ==
    IF s # <<>> /\ s[Len(s)] = " " THEN rstrip(SubSeq(s, 1, Len(s) - 1)) ELSE s

\* str.strip()
strip(s) == rstrip(lstrip(s))

\* str.replace(c, "")
quitar(s, c) == SelectSeq(s, LAMBDA x : x # c)

\* str.split(sep): the pieces between the separators, empty pieces kept
RECURSIVE split(_, _)
split(s, sep) ==
    IF \E i \in 1..Len(s) : s[i] = sep
    THEN LET i == CHOOSE k \in 1..Len(s) :
                      s[k] = sep /\ \A j \in 1..(k - 1) : s[j] # sep
         IN  <<SubSeq(s, 1, i - 1)>> \o split(SubSeq(s, i + 1, Len(s)), sep)
    ELSE <<s>>

RECURSIVE ValorDigitos(_)
ValorDigitos(s) ==
    IF s = <<>> THEN 0
    ELSE 10 * ValorDigitos(SubSeq(s, 1, Len(s) - 1)) + ValorDigito(s[Len(s)])

TodosDigitos(s) == s # <<>> /\ \A i \in 1..Len(s) : EsDigito(s[i])

\* int(text): blanks around, an optional sign, then digits only; anything else
\* is a ValueError (ok = FALSE)
int(texto) ==
    LET t == strip(texto)
        signo == t # <<>> /\ Head(t) \in {"-", "+"}
        cuerpo == IF signo THEN Tail(t) ELSE t
    IN  IF TodosDigitos(cuerpo)
        THEN [ok |-> TRUE,
              v |-> IF signo /\ Head(t) = "-" THEN 0 - ValorDigitos(cuerpo)
                    ELSE ValorDigitos(cuerpo)]
        ELSE [ok |-> FALSE, v |-> 0]

Num(n) == [nan |-> FALSE, v |-> n]

NaN == [nan |-> TRUE, v |-> 0]

\* float(text): what int() reads, and "nan" with an optional sign
float(texto) ==
    LET t == strip(texto)
        signo == t # <<>> /\ Head(t) \in {"-", "+"}
        cuerpo == IF signo THEN Tail(t) ELSE t
    IN  IF cuerpo = <<"n", "a", "n">> THEN [ok |-> TRUE, x |-> NaN]
        ELSE [ok |-> int(texto).ok, x |-> Num(int(texto).v)]

\* a >= b on floats
MayorIgual(a, b) == ~a.nan /\ ~b.nan /\ a.v >= b.v

\* a < b on floats
Menor(a, b) == ~a.nan /\ ~b.nan /\ a.v < b.v

\* list[i] of Python: i counts from 0, a negative i from the end
EnRango(lista, i) == 0 - Len(lista) <= i /\ i < Len(lista)

Indexar(lista, i) == IF i >= 0 THEN lista[i + 1] ELSE lista[Len(lista) + i + 1]

Contiene(lista, x) == \E i \in 1..Len(lista) : lista[i] = x

Elementos(lista) == {lista[i] : i \in 1..Len(lista)}


\* ----------------------------------------------------------- the datasets
\* list(DATASETS.keys()), in the order of the dict
claves == <<"estados", "ciudades", "paises", "carreteras">>

Claves == Elementos(claves)

\* DATASETS[k]["nombre"].split("(")[0].strip()
NombreCapa(k) ==
    CASE k = "estados" -> "Estados/Provincias"
      [] k = "ciudades" -> "Ciudades/Localidades"
      [] k = "paises" -> "Paises"
      [] k = "carreteras" -> "Carreteras principales"

EstadosArchivo == {"ausente", "completo", "parcial"}

\* What one HTTP GET does: "ok" writes the whole archive, "falla" raises
\* leaving nothing, "falla_parcial" raises after part of the file was written
Red == {"ok", "falla", "falla_parcial"}

\* ------------------------------------------------------------ the fetcher
\* urllib.request.urlretrieve(url, ruta): the file it leaves, and whether it
\* raised
urlretrieve(red) ==
    CASE red = "ok" -> [archivo |-> "completo", raised |-> FALSE]
      [] red = "falla" -> [archivo |-> "ausente", raised |-> TRUE]
      [] red = "falla_parcial" -> [archivo |-> "parcial", raised |-> TRUE]

\* the except branch: if os.path.exists(ruta): os.remove(ruta)
LimpiarSinBorrar(f) == f

Limpiar(f) == IF f # "ausente" THEN "ausente" ELSE f

\* dibuja.descargar_dataset on an archive in state f, the network answering
\* red.  ret: "ruta" (the path) or "None"; intentos: downloads attempted.
descargar_dataset_sin_cache(f, red) ==
    LET r == urlretrieve(red)
    IN  IF r.raised
        THEN [ret |-> "None", archivo |-> Limpiar(r.archivo), intentos |-> 1,
              fallo |-> TRUE]
        ELSE [ret |-> "ruta", archivo |-> r.archivo, intentos |-> 1,
              fallo |-> FALSE]

descargar_dataset_reintenta(f, red) ==
    IF f # "ausente"
    THEN [ret |-> "ruta", archivo |-> f, intentos |-> 0, fallo |-> FALSE]
    ELSE LET r == urlretrieve(red)
         IN  IF r.raised
             THEN [ret |-> "None", archivo |-> Limpiar(urlretrieve(red).archivo),
                   intentos |-> 2, fallo |-> TRUE]
             ELSE [ret |-> "ruta", archivo |-> r.archivo, intentos |-> 1,
                   fallo |-> FALSE]

descargar_dataset(f, red) ==
    IF f # "ausente"
    THEN [ret |-> "ruta", archivo |-> f, intentos |-> 0, fallo |-> FALSE]
    ELSE LET r == urlretrieve(red)
         IN  IF r.raised
             THEN [ret |-> "None", archivo |-> Limpiar(r.archivo),
                   intentos |-> 1, fallo |-> TRUE]
             ELSE [ret |-> "ruta", archivo |-> r.archivo, intentos |-> 1,
                   fallo |-> FALSE]

\* mapa.descargar_datos and mapa_baja_california.descargar_datos: the same,
\* but the exception is raised again ("raise")
descargar_datos_calla(f, red) == descargar_dataset(f, red)

descargar_datos(f, red) ==
    IF f # "ausente"
    THEN [ret |-> "ruta", archivo |-> f, intentos |-> 0, fallo |-> FALSE]
    ELSE LET r == urlretrieve(red)
         IN  IF r.raised
             THEN [ret |-> "raise", archivo |-> Limpiar(r.archivo),
                   intentos |-> 1, fallo |-> TRUE]
             ELSE [ret |-> "ruta", archivo |-> r.archivo, intentos |-> 1,
                   fallo |-> FALSE]

\* The record kept of a call of the fetcher: fn the function called, clave the
\* dataset, antes the archive before the call, previas the downloads of it that
\* had succeeded, red what the network would answer, ret and intentos what
\* the call returned and how many downloads it attempted
SinLlamada ==
    [fn |-> "ninguna", clave |-> "ninguna", antes |-> "ausente", previas |-> 0,
     red |-> "ok", ret |-> "ninguno", intentos |-> 0]

\* ---------------------------------------------------------- pedir_datasets
\* the for loop over the comma-separated parts
RECURSIVE agregar_partes(_, _)
agregar_partes(partes, sel) ==
    IF partes = <<>> THEN sel
    ELSE LET n == int(Head(partes))
             idx == n.v - 1
         IN  agregar_partes(
                 Tail(partes),
                 IF n.ok /\ 0 <= idx /\ idx < Len(claves)
                       /\ ~Contiene(sel, claves[idx + 1])
                 THEN Append(sel, claves[idx + 1])
                 ELSE sel)

\* The choice made without looking at what is already chosen
RECURSIVE agregar_partes_repetidas(_, _)
agregar_partes_repetidas(partes, sel) ==
    IF partes = <<>> THEN sel
    ELSE LET n == int(Head(partes))
             idx == n.v - 1
         IN  agregar_partes_repetidas(
                 Tail(partes),
                 IF n.ok /\ 0 <= idx /\ idx < Len(claves)
                 THEN Append(sel, claves[idx + 1])
                 ELSE sel)

pedir_datasets_repite(texto) ==
    LET entrada == strip(texto)
    IN  IF entrada # <<>>
        THEN agregar_partes_repetidas(split(quitar(entrada, " "), ","), <<"estados">>)
        ELSE <<"estados">>

pedir_datasets(texto) ==
    LET entrada == strip(texto)
    IN  IF entrada # <<>>
        THEN agregar_partes(split(quitar(entrada, " "), ","), <<"estados">>)
        ELSE <<"estados">>

\* ---------------------------------------------------------- the palettes
\* paleta_por_defecto(); cuadricula_alpha 0.3 is written as the fraction 3/10
paleta_por_defecto ==
    [nombre |-> "Clásico (fondo blanco)",
     fondo_figura |-> "#ffffff", fondo_mapa |-> "#ffffff",
     relleno_tierra |-> "#f5e6ca", contorno |-> "#1a3c6e",
     division_estados |-> "#cc3333", texto_etiquetas |-> "#1a1a1a",
     texto_stroke |-> "#ffffff", titulo |-> "#1a3c6e",
     subtitulo |-> "#666666", ejes_texto |-> "#333333",
     ejes_ticks |-> "#444444", ejes_bordes |-> "#cccccc",
     cuadricula |-> "#cccccc", cuadricula_alpha |-> <<3, 10>>,
     texto_info |-> "#777777", indicador_norte |-> "#1a3c6e"]

\* Palettes a paletas.json may hold (a palette need not have every field)
PaletaOscura ==
    [nombre |-> "Oscuro", fondo_figura |-> "#000000", contorno |-> "#ffffff"]

PaletaMar == [nombre |-> "Mar", fondo_figura |-> "#003366"]

PaletaSinNombre == [fondo_figura |-> "#eeeeee"]

ListasPaletas ==
    {<<>>, <<PaletaOscura>>, <<PaletaOscura, PaletaMar>>,
     <<PaletaMar, PaletaSinNombre, PaletaOscura>>,
     <<PaletaSinNombre, PaletaOscura, PaletaMar, paleta_por_defecto>>}

\* datos/paletas.json.  existe: the file is there; legible: open() and
\* json.load() succeed; objeto: the document is a JSON object (it has .get);
\* tiene: the object has the key "paletas"; nulo: its value is null;
\* lista: its value when it is a list.
DocPaletas(existe, legible, objeto, tiene, nulo, lista) ==
    [existe |-> existe, legible |-> legible, objeto |-> objeto,
     tiene |-> tiene, nulo |-> nulo, lista |-> lista]

ArchivosPaletas ==
    {DocPaletas(FALSE, FALSE, FALSE, FALSE, FALSE, <<>>),
     DocPaletas(TRUE, FALSE, FALSE, FALSE, FALSE, <<>>),
     DocPaletas(TRUE, TRUE, FALSE, FALSE, FALSE, <<>>),
     DocPaletas(TRUE, TRUE, TRUE, FALSE, FALSE, <<>>),
     DocPaletas(TRUE, TRUE, TRUE, TRUE, TRUE, <<>>)}
    \cup {DocPaletas(TRUE, TRUE, TRUE, TRUE, FALSE, l) : l \in ListasPaletas}

\* cargar_paletas().  raised: an exception left the function.
cargar_paletas_sin_vacio(doc) ==
    IF ~doc.existe THEN [raised |-> FALSE, paletas |-> <<paleta_por_defecto>>]
    ELSE IF ~doc.legible \/ ~doc.objeto
    THEN [raised |-> FALSE, paletas |-> <<paleta_por_defecto>>]
    ELSE [raised |-> FALSE, paletas |-> IF doc.tiene THEN doc.lista ELSE <<>>]

cargar_paletas(doc) ==
    IF ~doc.existe THEN [raised |-> FALSE, paletas |-> <<paleta_por_defecto>>]
    ELSE IF ~doc.legible \/ ~doc.objeto
    \* json.load or data.get raised inside the try: except Exception
    THEN [raised |-> FALSE, paletas |-> <<paleta_por_defecto>>]
    ELSE LET lista == IF doc.tiene /\ ~doc.nulo THEN doc.lista ELSE <<>>
         IN  IF lista = <<>>
             THEN [raised |-> FALSE, paletas |-> <<paleta_por_defecto>>]
             ELSE [raised |-> FALSE, paletas |-> lista]

\* pedir_paleta(paletas) with texto typed at the prompt.  raised: IndexError.
pedir_paleta_base_cero(lista, texto) ==
    LET entrada == strip(texto)
        n == int(entrada)
        sel0 == IF entrada = <<>> THEN 0 ELSE IF n.ok THEN n.v ELSE 0
        sel == IF sel0 < 0 \/ sel0 >= Len(lista) THEN 0 ELSE sel0
    IN  IF EnRango(lista, sel)
        THEN [raised |-> FALSE, elegida |-> Indexar(lista, sel)]
        ELSE [raised |-> TRUE, elegida |-> paleta_por_defecto]

pedir_paleta_acota(lista, texto) ==
    LET entrada == strip(texto)
        n == int(entrada)
        sel0 == IF entrada = <<>> THEN 0 ELSE IF n.ok THEN n.v - 1 ELSE 0
        sel == IF sel0 < 0 THEN 0
               ELSE IF sel0 >= Len(lista) THEN Len(lista) - 1 ELSE sel0
    IN  IF EnRango(lista, sel)
        THEN [raised |-> FALSE, elegida |-> Indexar(lista, sel)]
        ELSE [raised |-> TRUE, elegida |-> paleta_por_defecto]

pedir_paleta(lista, texto) ==
    LET entrada == strip(texto)
        n == int(entrada)
        sel0 == IF entrada = <<>> THEN 0 ELSE IF n.ok THEN n.v - 1 ELSE 0
        sel == IF sel0 < 0 \/ sel0 >= Len(lista) THEN 0 ELSE sel0
    IN  IF EnRango(lista, sel)
        THEN [raised |-> FALSE, elegida |-> Indexar(lista, sel)]
        ELSE [raised |-> TRUE, elegida |-> paleta_por_defecto]

\* ------------------------------------------------------- pedir_coordenadas
LAT_MIN_DEFAULT == 22

LAT_MAX_DEFAULT == 33

LON_MIN_DEFAULT == -120

LON_MAX_DEFAULT == -108

\* float(entrada) if entrada else DEFAULT
leer_coordenada(texto, defecto) ==
    LET entrada == strip(texto)
    IN  IF entrada # <<>> THEN float(entrada) ELSE [ok |-> TRUE, x |-> Num(defecto)]

SinCoords ==
    [raised |-> FALSE, lat_min |-> Num(0), lat_max |-> Num(0),
     lon_min |-> Num(0), lon_max |-> Num(0)]

\* if minimo >= maximo: minimo, maximo = maximo, minimo
ordenar_sin_intercambio(minimo, maximo) == <<minimo, maximo>>

ordenar(minimo, maximo) ==
    IF MayorIgual(minimo, maximo) THEN <<maximo, minimo>> ELSE <<minimo, maximo>>

\* pedir_coordenadas() with the four texts typed, in the order of the prompts.
\* raised: float() raised ValueError at one of them.
pedir_coordenadas(e) ==
    LET a == leer_coordenada(e[1], LAT_MIN_DEFAULT)
        b == leer_coordenada(e[2], LAT_MAX_DEFAULT)
        c == leer_coordenada(e[3], LON_MIN_DEFAULT)
        d == leer_coordenada(e[4], LON_MAX_DEFAULT)
        lat == ordenar(a.x, b.x)
        lon == ordenar(c.x, d.x)
    IN  IF a.ok /\ b.ok /\ c.ok /\ d.ok
        THEN [raised |-> FALSE, lat_min |-> lat[1], lat_max |-> lat[2],
              lon_min |-> lon[1], lon_max |-> lon[2]]
        ELSE [SinCoords EXCEPT !.raised = TRUE]

\* ---------------------------------------------------------------- zones
\* A value a JSON object may lack is <<>> when the key is absent and <<v>>
\* when it is there; dict.get(key, default):
get(campo, defecto) == IF campo = <<>> THEN defecto ELSE campo[1]

\* An element of a "zonas" list: a JSON object (dict) with the keys the
\* scripts read, or a value that is no object (dict = FALSE).
Zona(id, nombre, latitud, longitud, color) ==
    [dict |-> TRUE, id |-> id, nombre |-> nombre, latitud |-> latitud,
     longitud |-> longitud, color |-> color]

NoZona ==
    [dict |-> FALSE, id |-> 0, nombre |-> <<>>, latitud |-> <<>>,
     longitud |-> <<>>, color |-> <<>>]

\* A zone file: estado is "ausente" (no such file), "ilegible" (open or
\* json.load fails), "no_objeto" (the document is no JSON object) or
\* "objeto"; clase tells what the object holds under "zonas": "falta" (no
\* such key), "nulo" (null) or "lista" (the list items).
ArchivoDeZonas(estado, clase, items, nombre) ==
    [estado |-> estado, clase |-> clase, items |-> items, nombre |-> nombre]

SinArchivo == ArchivoDeZonas("ausente", "falta", <<>>, <<>>)

\* An entry of the registry capas_zonas.json, a JSON object
Capa(arch) == [archivo |-> arch]

\* The file cargar_zonas opens for the name arch: DATOS_DIR itself for
\* the empty name (open raises IsADirectoryError), no file for an unknown one
abrir(disco, arch) ==
    IF arch \in DOMAIN disco THEN disco[arch] ELSE SinArchivo

\* z["_archivo_origen"] = archivo; z["_nombre_capa"] = nombre_capa
etiquetar(z, arch, nombre_capa) ==
    [id |-> z.id, nombre |-> z.nombre, latitud |-> z.latitud,
     longitud |-> z.longitud, color |-> z.color,
     _archivo_origen |-> arch, _nombre_capa |-> nombre_capa]

\* The body of the try of cargar_zonas for one layer: the zones it appends,
\* none when an exception sends it to the except branch
zonas_de_capa_parcial(disco, capa) ==
    LET arch == get(capa.archivo, "")
        f == abrir(disco, arch)
        nombre_capa == get(f.nombre, arch)
        buenas == SelectSeq(f.items, LAMBDA z : z.dict)
    IN  IF f.estado # "objeto" \/ f.clase = "nulo" THEN <<>>
        ELSE [i \in 1..Len(buenas) |-> etiquetar(buenas[i], arch, nombre_capa)]

zonas_de_capa(disco, capa) ==
    LET arch == get(capa.archivo, "")
        f == abrir(disco, arch)
        nombre_capa == get(f.nombre, arch)
    IN  \* open / json.load / data.get raise: except Exception
        IF f.estado # "objeto" THEN <<>>
        \* len(None) raises TypeError
        ELSE IF f.clase = "nulo" THEN <<>>
        \* z["_archivo_origen"] = ... raises TypeError on a value that is no
        \* dict, before todas_zonas.extend(zonas)
        ELSE IF \E i \in 1..Len(f.items) : ~f.items[i].dict THEN <<>>
        ELSE [i \in 1..Len(f.items) |-> etiquetar(f.items[i], arch, nombre_capa)]

\* cargar_zonas(capas_activas): the for loop, first layer first
RECURSIVE cargar_zonas_al_reves(_, _)
cargar_zonas_al_reves(disco, capas_activas) ==
    IF capas_activas = <<>> THEN <<>>
    ELSE cargar_zonas_al_reves(disco, Tail(capas_activas))
         \o zonas_de_capa(disco, Head(capas_activas))

RECURSIVE cargar_zonas(_, _)
cargar_zonas(disco, capas_activas) ==
    IF capas_activas = <<>> THEN <<>>
    ELSE zonas_de_capa(disco, Head(capas_activas))
         \o cargar_zonas(disco, Tail(capas_activas))

\* cargar_capas_zonas(): the list under "archivos" of the registry, [] when
\* the file is missing or reading it raises (len(None) included)
cargar_capas_zonas(doc) ==
    IF doc.estado = "objeto" /\ doc.clase = "lista" THEN doc.items ELSE <<>>

\* os.path.exists(os.path.join(DATOS_DIR, archivo)): the empty name joins
\* to DATOS_DIR itself, which descargar_datos has left in place
existe(disco, arch) == arch = "" \/ abrir(disco, arch).estado # "ausente"

\* The for loop of pedir_zonas_activas over the parts typed
RECURSIVE activar_partes(_, _, _, _)
activar_partes(partes, registradas, disco, activas) ==
    IF partes = <<>> THEN activas
    ELSE LET n == int(Head(partes))
             idx == n.v - 1
         IN  activar_partes(
                 Tail(partes), registradas, disco,
                 IF n.ok /\ 0 <= idx /\ idx < Len(registradas)
                       /\ existe(disco, get(registradas[idx + 1].archivo, ""))
                 THEN Append(activas, registradas[idx + 1])
                 ELSE activas)

\* pedir_zonas_activas(capas), texto typed at its prompt (nothing is asked
\* when no layer is registered)
pedir_zonas_activas(registradas, disco, texto) ==
    LET entrada == strip(texto)
    IN  IF registradas = <<>> THEN <<>>
        ELSE IF entrada = <<>> THEN <<>>
        ELSE activar_partes(split(quitar(entrada, " "), ","), registradas, disco, <<>>)

\* No zone file on disk, and a run that has not reached the zones
SinArchivosZonas == [a \in {"a.json"} |-> SinArchivo]

SinZonas ==
    /\ capasActivas = <<>>
    /\ zonas = <<>>
    /\ visibles = <<>>
    /\ marcadores = <<>>
    /\ filas = <<>>

\* ----------------------------------------------------- binary64 arithmetic
\* A natural number of any size is the sequence of its digits in base Base,
\* least significant first, with no leading zero digit (0 is <<>>).
Base == 8192

BitsDigito == 13

RECURSIVE Normal(_)
Normal(x) ==
    IF x # <<>> /\ x[Len(x)] = 0 THEN Normal(SubSeq(x, 1, Len(x) - 1)) ELSE x

RECURSIVE Grande(_)
Grande(n) == IF n = 0 THEN <<>> ELSE <<n % Base>> \o Grande(n \div Base)

RECURSIVE SumaCon(_, _, _)
SumaCon(x, y, acarreo) ==
    IF x = <<>> /\ y = <<>> THEN Grande(acarreo)
    ELSE LET a == IF x = <<>> THEN 0 ELSE Head(x)
             b == IF y = <<>> THEN 0 ELSE Head(y)
             t == a + b + acarreo
         IN  <<t % Base>>
             \o SumaCon(IF x = <<>> THEN <<>> ELSE Tail(x),
                        IF y = <<>> THEN <<>> ELSE Tail(y), t \div Base)

Suma(x, y) == Normal(SumaCon(x, y, 0))

\* x - y for x >= y
RECURSIVE RestaCon(_, _, _)
RestaCon(x, y, presta) ==
    IF x = <<>> THEN <<>>
    ELSE LET b == IF y = <<>> THEN 0 ELSE Head(y)
             t == Head(x) - b - presta
         IN  <<IF t < 0 THEN t + Base ELSE t>>
             \o RestaCon(Tail(x), IF y = <<>> THEN <<>> ELSE Tail(y),
                         IF t < 0 THEN 1 ELSE 0)

Resta(x, y) == Normal(RestaCon(x, y, 0))

\* x * k for 0 <= k < 2^17
RECURSIVE PorCon(_, _, _)
PorCon(x, k, acarreo) ==
    IF x = <<>> THEN Grande(acarreo)
    ELSE LET t == Head(x) * k + acarreo
         IN  <<t % Base>> \o PorCon(Tail(x), k, t \div Base)

Por(x, k) == Normal(PorCon(x, k, 0))

\* x divided by d for 0 < d < 2^17: quotient q and remainder r
RECURSIVE EntreCon(_, _)
EntreCon(x, d) ==
    IF x = <<>> THEN [q |-> <<>>, r |-> 0]
    ELSE LET alto == EntreCon(Tail(x), d)
             t == alto.r * Base + Head(x)
         IN  [q |-> <<t \div d>> \o alto.q, r |-> t % d]

Entre(x, d) == LET c == EntreCon(x, d) IN [q |-> Normal(c.q), r |-> c.r]

RECURSIVE BitsDe(_)
BitsDe(n) == IF n = 0 THEN 0 ELSE 1 + BitsDe(n \div 2)

Bits(x) == IF x = <<>> THEN 0 ELSE (Len(x) - 1) * BitsDigito + BitsDe(x[Len(x)])

\* x * 2^s
Izquierda(x, s) ==
    IF x = <<>> THEN <<>>
    ELSE [i \in 1..(s \div BitsDigito) |-> 0] \o Por(x, 2 ^ (s % BitsDigito))

\* floor(x / 2^s)
Piso(x, s) ==
    IF s \div BitsDigito >= Len(x) THEN <<>>
    ELSE Entre(SubSeq(x, (s \div BitsDigito) + 1, Len(x)), 2 ^ (s % BitsDigito)).q

\* -1, 0, 1 as x is below, equal to or above y
RECURSIVE Comparar(_, _)
Comparar(x, y) ==
    IF Len(x) # Len(y) THEN (IF Len(x) < Len(y) THEN -1 ELSE 1)
    ELSE IF x = <<>> THEN 0
    ELSE IF x[Len(x)] # y[Len(y)] THEN (IF x[Len(x)] < y[Len(y)] THEN -1 ELSE 1)
    ELSE Comparar(Normal(SubSeq(x, 1, Len(x) - 1)), Normal(SubSeq(y, 1, Len(y) - 1)))

\* x shifted right by s bits, rounded to nearest, ties to even
Derecha(x, s) ==
    IF s = 0 THEN x
    ELSE LET q == Piso(x, s)
             sobra == Resta(x, Izquierda(q, s))
             medio == Comparar(sobra, Izquierda(<<1>>, s - 1))
             impar == q # <<>> /\ Head(q) % 2 = 1
         IN  IF medio > 0 \/ (medio = 0 /\ impar) THEN Suma(q, <<1>>) ELSE q

\* A Python float (IEEE 754 binary64, finite): (-1)^neg * m * 2^e with m of
\* at most 53 bits
Mantisa == 53

Redondear(neg, m, e) ==
    IF Bits(m) <= Mantisa THEN [neg |-> neg /\ m # <<>>, m |-> m, e |-> e]
    ELSE LET s == Bits(m) - Mantisa
         IN  [neg |-> neg, m |-> Derecha(m, s), e |-> e + s]

\* float(k) for an int k, |k| < 2^17
DeEntero(k) ==
    [neg |-> k < 0, m |-> Grande(IF k < 0 THEN -k ELSE k), e |-> 0]

\* x * k for a float x and an int k
PorEntero(x, k) ==
    Redondear(x.neg # (k < 0), Por(x.m, IF k < 0 THEN -k ELSE k), x.e)

\* x / d for a float x and an int d > 0: the quotient is cut below a bit that
\* stands for the remainder, then rounded
EntreEntero(x, d) ==
    IF x.m = <<>> THEN x
    ELSE LET s == IF Bits(x.m) < 75 THEN 75 - Bits(x.m) ELSE 0
             c == Entre(Izquierda(x.m, s), d)
             m2 == Suma(Por(c.q, 2), IF c.r > 0 THEN <<1>> ELSE <<>>)
         IN  Redondear(x.neg, m2, x.e - s - 1)

\* x + y
Mas(x, y) ==
    LET e == IF x.e < y.e THEN x.e ELSE y.e
        a == Izquierda(x.m, x.e - e)
        b == Izquierda(y.m, y.e - e)
    IN  IF x.neg = y.neg THEN Redondear(x.neg, Suma(a, b), e)
        ELSE IF Comparar(a, b) >= 0 THEN Redondear(x.neg, Resta(a, b), e)
        ELSE Redondear(y.neg, Resta(b, a), e)

\* x < y
MenorQue(x, y) ==
    LET e == IF x.e < y.e THEN x.e ELSE y.e
        a == Izquierda(x.m, x.e - e)
        b == Izquierda(y.m, y.e - e)
    IN  IF x.neg # y.neg THEN x.neg
        ELSE IF x.neg THEN Comparar(a, b) > 0 ELSE Comparar(a, b) < 0

\* The float a decimal literal num/den denotes (den a power of ten)
Literal(num, den) == EntreEntero(DeEntero(num), den)

\* ---------------------------------------------------------------- colors
Mayusculas ==
    <<"A", "B", "C", "D", "E", "F", "G", "H", "I", "J", "K", "L", "M", "N",
      "O", "P", "Q", "R", "S", "T", "U", "V", "W", "X", "Y", "Z">>

Minusculas ==
    <<"a", "b", "c", "d", "e", "f", "g", "h", "i", "j", "k", "l", "m", "n",
      "o", "p", "q", "r", "s", "t", "u", "v", "w", "x", "y", "z">>

\* str.lower() on a text of ASCII characters
lower(texto) ==
    [i \in 1..Len(texto) |->
        IF \E k \in 1..26 : Mayusculas[k] = texto[i]
        THEN Minusculas[CHOOSE k \in 1..26 : Mayusculas[k] = texto[i]]
        ELSE texto[i]]

COLORES_ESPANOL ==
    <<
       [nombre |-> <<"r", "o", "j", "o">>,
        hex |-> <<"#", "e", "6", "3", "9", "4", "6">>],
       [nombre |-> <<"a", "z", "u", "l">>,
        hex |-> <<"#", "1", "d", "3", "5", "5", "7">>],
       [nombre |-> <<"v", "e", "r", "d", "e">>,
        hex |-> <<"#", "2", "a", "9", "d", "8", "f">>],
       [nombre |-> <<"a", "m", "a", "r", "i", "l", "l", "o">>,
        hex |-> <<"#", "f", "4", "a", "2", "6", "1">>],
       [nombre |-> <<"n", "a", "r", "a", "n", "j", "a">>,
        hex |-> <<"#", "e", "7", "6", "f", "5", "1">>],
       [nombre |-> <<"m", "o", "r", "a", "d", "o">>,
        hex |-> <<"#", "6", "a", "0", "d", "a", "d">>],
       [nombre |-> <<"r", "o", "s", "a">>,
        hex |-> <<"#", "f", "f", "6", "9", "b", "4">>],
       [nombre |-> <<"n", "e", "g", "r", "o">>,
        hex |-> <<"#", "0", "0", "0", "0", "0", "0">>],
       [nombre |-> <<"b", "l", "a", "n", "c", "o">>,
        hex |-> <<"#", "f", "f", "f", "f", "f", "f">>],
       [nombre |-> <<"g", "r", "i", "s">>,
        hex |-> <<"#", "8", "8", "8", "8", "8", "8">>],
       [nombre |-> <<"c", "a", "f", "e">>,
        hex |-> <<"#", "8", "b", "4", "5", "1", "3">>],
       [nombre |-> <<"c", "y", "a", "n">>,
        hex |-> <<"#", "0", "0", "b", "c", "d", "4">>],
       [nombre |-> <<"m", "a", "g", "e", "n", "t", "a">>,
        hex |-> <<"#", "e", "9", "1", "e", "6", "3">>],
       [nombre |-> <<"t", "u", "r", "q", "u", "e", "s", "a">>,
        hex |-> <<"#", "4", "0", "e", "0", "d", "0">>],
       [nombre |-> <<"d", "o", "r", "a", "d", "o">>,
        hex |-> <<"#", "f", "f", "d", "7", "0", "0">>],
       [nombre |-> <<"p", "l", "a", "t", "e", "a", "d", "o">>,
        hex |-> <<"#", "c", "0", "c", "0", "c", "0">>]
    >>

EnTabla(nombre) == \E k \in 1..Len(COLORES_ESPANOL) : COLORES_ESPANOL[k].nombre = nombre

DeTabla(nombre) ==
    COLORES_ESPANOL[CHOOSE k \in 1..Len(COLORES_ESPANOL) :
                        COLORES_ESPANOL[k].nombre = nombre].hex

\* resolver_color(nombre_color): the table's hex for a table name, else the
\* text itself, lower-cased and stripped, whether it starts with "#" or not
resolver_color_literal(nombre_color) ==
    LET nombre == strip(lower(nombre_color))
    IN  IF nombre_color \in {c.nombre : c \in Elementos(COLORES_ESPANOL)}
        THEN DeTabla(nombre_color) ELSE nombre_color

resolver_color(nombre_color) ==
    LET nombre == strip(lower(nombre_color))
    IN  IF EnTabla(nombre) THEN DeTabla(nombre) ELSE nombre

\* ------------------------------------------------------------ text color
HexDigitos ==
    <<"0", "1", "2", "3", "4", "5", "6", "7", "8", "9", "a", "b", "c", "d", "e", "f">>

EsHex(c) == \E d \in 1..16 : HexDigitos[d] = lower(<<c>>)[1]

ValorHex(c) == (CHOOSE d \in 1..16 : HexDigitos[d] = lower(<<c>>)[1]) - 1

RECURSIVE ValorHexes(_)
ValorHexes(s) ==
    IF s = <<>> THEN 0 ELSE ValorHexes(SubSeq(s, 1, Len(s) - 1)) * 16 + ValorHex(s[Len(s)])

\* The digits of an int() literal: digits with single underscores between them
DigitosHexValidos(s) ==
    /\ s # <<>>
    /\ \A i \in 1..Len(s) : EsHex(s[i]) \/ s[i] = "_"
    /\ s[1] # "_" /\ s[Len(s)] # "_"
    /\ \A i \in 1..(Len(s) - 1) : ~(s[i] = "_" /\ s[i + 1] = "_")

\* int(texto, 16): blanks around, a sign, a 0x prefix (and one underscore
\* after it), then the digits.  ok = FALSE: ValueError
int16(texto) ==
    LET t == strip(texto)
        signo == t # <<>> /\ t[1] \in {"+", "-"}
        u == IF signo THEN Tail(t) ELSE t
        prefijo == Len(u) >= 2 /\ u[1] = "0" /\ u[2] \in {"x", "X"}
        v == IF prefijo THEN SubSeq(u, 3, Len(u)) ELSE u
        w == IF prefijo /\ v # <<>> /\ v[1] = "_" THEN Tail(v) ELSE v
        n == ValorHexes(quitar(w, "_"))
    IN  IF DigitosHexValidos(w)
        THEN [ok |-> TRUE, v |-> IF signo /\ t[1] = "-" THEN -n ELSE n]
        ELSE [ok |-> FALSE, v |-> 0]

\* texto[i:j] of Python for 0 <= i <= j
rebanada(texto, i, j) ==
    SubSeq(texto, i + 1, IF j < Len(texto) THEN j ELSE Len(texto))

\* str.lstrip("#")
RECURSIVE lstrip_numeral(_)
lstrip_numeral(s) ==
    IF s # <<>> /\ Head(s) = "#" THEN lstrip_numeral(Tail(s)) ELSE s

\* The float literals 0.299, 0.587, 0.114 and 0.5
PesoRojo == Literal(299, 1000)

PesoVerde == Literal(587, 1000)

PesoAzul == Literal(114, 1000)

Umbral == Literal(5, 10)

\* brillo = (0.299 * r + 0.587 * g + 0.114 * b) / 255
brillo(r, g, b) ==
    EntreEntero(Mas(Mas(PorEntero(PesoRojo, r), PorEntero(PesoVerde, g)),
                    PorEntero(PesoAzul, b)), 255)

\* _color_texto_contraste(hex_color): "white" or "black"; any exception of
\* the try gives "black"
_color_texto_contraste(hex_color) ==
    LET h == lstrip_numeral(hex_color)
        r == int16(rebanada(h, 0, 2))
        g == int16(rebanada(h, 2, 4))
        b == int16(rebanada(h, 4, 6))
    IN  IF ~(r.ok /\ g.ok /\ b.ok) THEN "black"
        ELSE IF MenorQue(brillo(r.v, g.v, b.v), Umbral) THEN "white"
        ELSE "black"

\* ---------------------------------------------------------- drawing zones
\* math.cos(math.radians(lat)) for a whole number of degrees between -360
\* and 360, as the C
\* library computes it in binary64: its sign (it is 6.1e-17 at 90 and -90,
\* -1.8e-16 at 270 and -270, never 0.0) and whether it is exactly 1.0
coseno_exacto(lat) ==
    LET a == IF lat < 0 THEN -lat ELSE lat
    IN  [signo |-> IF a \in {90, 270} THEN 0
                   ELSE IF a < 90 \/ a > 270 THEN 1 ELSE -1,
         uno |-> a \in {0, 360}]

coseno(lat) ==
    LET a == IF lat < 0 THEN -lat ELSE lat
    IN  [signo |-> IF a <= 90 \/ a > 270 THEN 1 ELSE -1,
         uno |-> a \in {0, 360}]

\* x / cos for a float x: the quotient is kept as the pair of its operands,
\* entre = <<lat>> meaning "divided by cos(radians(lat))"; raised:
\* ZeroDivisionError
dividir(x, lat, cos) ==
    IF cos.signo = 0 THEN [raised |-> TRUE, base |-> x, entre |-> <<>>]
    ELSE IF cos.uno THEN [raised |-> FALSE, base |-> x, entre |-> <<>>]
    ELSE [raised |-> FALSE, base |-> x, entre |-> <<lat>>]

\* lat_min <= z.get("latitud", 0) <= lat_max and
\* lon_min <= z.get("longitud", 0) <= lon_max
dentro_abierto(z, c) ==
    LET lat == Num(get(z.latitud, 0))
        lon == Num(get(z.longitud, 0))
    IN  /\ Menor(c.lat_min, lat) /\ Menor(lat, c.lat_max)
        /\ Menor(c.lon_min, lon) /\ Menor(lon, c.lon_max)

dentro(z, c) ==
    LET lat == Num(get(z.latitud, 0))
        lon == Num(get(z.longitud, 0))
    IN  /\ MayorIgual(lat, c.lat_min) /\ MayorIgual(c.lat_max, lat)
        /\ MayorIgual(lon, c.lon_min) /\ MayorIgual(c.lon_max, lon)

\* zonas_visibles of generar_mapa
zonas_visibles(zs, c) == SelectSeq(zs, LAMBDA z : dentro(z, c))

\* The float literal 0.008
FraccionRadio == Literal(8, 1000)

\* radio_visual = rango_lat * 0.008
radio_visual_de(c) == PorEntero(FraccionRadio, c.lat_max.v - c.lat_min.v)

\* One turn of the for loop of dibujar_zonas on a zone inside the area: the
\* ellipse (center, radii, fill) and the id text (color)
marcador_sin_guarda(zona, c) ==
    LET lat == get(zona.latitud, 0)
        color == resolver_color(get(zona.color, <<"r", "o", "j", "o">>))
        radio_visual == radio_visual_de(c)
        radio_lon == dividir(radio_visual, lat, coseno_exacto(lat))
    IN  [raised |-> radio_lon.raised,
         id |-> zona.id, lat |-> lat, lon |-> get(zona.longitud, 0),
         radio_lon |-> [base |-> radio_lon.base, entre |-> radio_lon.entre],
         radio_visual |-> radio_visual,
         facecolor |-> color,
         texto_color |-> _color_texto_contraste(color)]

marcador(zona, c) ==
    LET lat == get(zona.latitud, 0)
        color == resolver_color(get(zona.color, <<"r", "o", "j", "o">>))
        radio_visual == radio_visual_de(c)
        cos_lat == coseno(lat)
        radio_lon == IF cos_lat.signo > 0 THEN dividir(radio_visual, lat, cos_lat)
                     ELSE [raised |-> FALSE, base |-> radio_visual, entre |-> <<>>]
    IN  [raised |-> radio_lon.raised,
         id |-> zona.id, lat |-> lat, lon |-> get(zona.longitud, 0),
         radio_lon |-> [base |-> radio_lon.base, entre |-> radio_lon.entre],
         radio_visual |-> radio_visual,
         facecolor |-> color,
         texto_color |-> _color_texto_contraste(color)]

\* The for loop of dibujar_zonas stops at the first turn that raises: the
\* markers of the turns before it stay on the figure
hasta_la_excepcion(ms) ==
    LET primera == IF \E i \in 1..Len(ms) : ms[i].raised
                   THEN CHOOSE i \in 1..Len(ms) :
                            ms[i].raised /\ \A j \in 1..(i - 1) : ~ms[j].raised
                   ELSE Len(ms) + 1
    IN  [raised |-> primera <= Len(ms), marcadores |-> SubSeq(ms, 1, primera - 1)]

\* dibujar_zonas(ax, zonas, ...): the markers added, in order; a zone
\* outside the area is passed over (continue).  raised: ZeroDivisionError
dibujar_zonas(zs, c) ==
    LET dibujadas == SelectSeq(zs, LAMBDA z : dentro(z, c))
    IN  hasta_la_excepcion(
            [i \in 1..Len(dibujadas) |-> marcador(dibujadas[i], c)])

\* dibujar_tabla(ax_tabla, zonas, paleta): one row per zone, id and name
\* x - y
Menos(x, y) == Mas(x, [y EXCEPT !.neg = ~y.neg /\ y.m # <<>>])

\* The height of a row of the legend fixed at 0.025 whatever the rows
alto_fila_fijo(n) == Literal(25, 1000)

\* alto_fila = min(0.025, espacio / max(n, 1)) with espacio = y_inicio - 0.06
alto_fila(n) ==
    IF MenorQue(EntreEntero(Menos(Literal(94, 100), Literal(6, 100)),
                            IF n > 1 THEN n ELSE 1),
                Literal(25, 1000))
    THEN EntreEntero(Menos(Literal(94, 100), Literal(6, 100)),
                     IF n > 1 THEN n ELSE 1)
    ELSE Literal(25, 1000)

\* The rows of the legend at the row height alto: row i (from 0) at
\* y = y_inicio - 0.025 - (i * alto_fila)
filas_de_tabla(zs, alto) ==
    [i \in 1..Len(zs) |->
        [id |-> zs[i].id, nombre |-> get(zs[i].nombre, "?"),
         y |-> Menos(Menos(Literal(94, 100), Literal(25, 1000)),
                     PorEntero(alto, i - 1)),
         alto_fila |-> alto]]

dibujar_tabla(zs) == filas_de_tabla(zs, alto_fila(Len(zs)))

\* ------------------------------------------------------------ generar_mapa
EsNaN(c) == c.lat_min.nan \/ c.lat_max.nan \/ c.lon_min.nan \/ c.lon_max.nan

\* ancho = lon_max - lon_min is 0: alto / ancho raises ZeroDivisionError
AnchoCero(c) == ~c.lon_min.nan /\ ~c.lon_max.nan /\ c.lon_min.v = c.lon_max.v

CapasEstados == <<"relleno", "contorno", "division", "etiquetas">>

\* The layers with the roads drawn first of all
generar_mapa_dibuja_desordenado(d, vac, c, sel) ==
    LET fondo == IF "paises" \in d THEN <<"paises">> ELSE <<>>
        vias == IF "carreteras" \in d /\ "carreteras" \notin vac
                THEN <<"carreteras">> ELSE <<>>
        puntos == IF "ciudades" \in d /\ "ciudades" \notin vac
                  THEN <<"ciudades">> ELSE <<>>
    IN  IF AnchoCero(c)
        THEN [capas |-> <<>>, subtitulo |-> <<>>, guardado |-> FALSE,
              error |-> "ZeroDivisionError"]
        ELSE IF "estados" \notin d
        THEN [capas |-> vias \o fondo, subtitulo |-> <<>>, guardado |-> FALSE,
              error |-> "KeyError"]
        ELSE IF EsNaN(c)
        THEN [capas |-> vias \o fondo \o CapasEstados \o puntos,
              subtitulo |-> <<>>, guardado |-> FALSE, error |-> "ValueError"]
        ELSE [capas |-> vias \o fondo \o CapasEstados \o puntos,
              subtitulo |-> [i \in 1..Len(sel) |-> NombreCapa(sel[i])],
              guardado |-> TRUE, error |-> "ninguno"]

\* dibuja.generar_mapa: the layers it draws in order, the subtitle, whether it
\* reaches plt.savefig, and the exception that stops it otherwise
generar_mapa_dibuja(d, vac, c, sel) ==
    LET fondo == IF "paises" \in d THEN <<"paises">> ELSE <<>>
        vias == IF "carreteras" \in d /\ "carreteras" \notin vac
                THEN <<"carreteras">> ELSE <<>>
        puntos == IF "ciudades" \in d /\ "ciudades" \notin vac
                  THEN <<"ciudades">> ELSE <<>>
    IN  IF AnchoCero(c)
        THEN [capas |-> <<>>, subtitulo |-> <<>>, guardado |-> FALSE,
              error |-> "ZeroDivisionError"]
        ELSE IF "estados" \notin d
        \* baja = datos["estados"]
        THEN [capas |-> fondo, subtitulo |-> <<>>, guardado |-> FALSE,
              error |-> "KeyError"]
        ELSE IF EsNaN(c)
        \* ax.set_xlim / ax.set_ylim refuse a NaN limit
        THEN [capas |-> fondo \o CapasEstados \o vias \o puntos,
              subtitulo |-> <<>>, guardado |-> FALSE, error |-> "ValueError"]
        ELSE [capas |-> fondo \o CapasEstados \o vias \o puntos,
              subtitulo |-> [i \in 1..Len(sel) |-> NombreCapa(sel[i])],
              guardado |-> TRUE, error |-> "ninguno"]

\* mapa.generar_mapa and mapa_baja_california.generar_mapa on the loaded
\* states
generar_mapa_estados(c) ==
    IF AnchoCero(c)
    THEN [capas |-> <<>>, subtitulo |-> <<>>, guardado |-> FALSE,
          error |-> "ZeroDivisionError"]
    ELSE IF EsNaN(c)
    THEN [capas |-> CapasEstados, subtitulo |-> <<>>, guardado |-> FALSE,
          error |-> "ValueError"]
    ELSE [capas |-> CapasEstados, subtitulo |-> <<>>, guardado |-> TRUE,
          error |-> "ninguno"]

\* The int a float with a whole value below 2^26 stands for (exponent 0,
\* at most two digits)
ValorEntero(x) ==
    LET v == IF x.m = <<>> THEN 0
             ELSE IF Len(x.m) = 1 THEN x.m[1]
             ELSE x.m[1] + Base * x.m[2]
    IN  IF x.neg THEN -v ELSE v

\* 111_320.0, the meters in one degree
MetrosPorGrado == 111320

\* metros / (111_320.0 * cos) with the cosine taken for exact: 0 at 90 degrees
metros_a_grados_exacto(metros, latitud) ==
    LET cos == coseno_exacto(latitud)
    IN  [raised |-> cos.signo = 0,
         grados_lat |-> EntreEntero(DeEntero(metros), MetrosPorGrado),
         grados_lon |->
             IF cos.uno
             THEN [valor |-> <<EntreEntero(DeEntero(metros), MetrosPorGrado)>>,
                   entre |-> <<>>]
             ELSE [valor |-> <<>>, entre |-> <<latitud>>]]

\* metros_a_grados(metros, latitud) for an int metros and a latitude in
\* whole degrees.  The product 111_320.0 * cos is 111_320.0 when the cosine
\* is 1.0 and grados_lon is then a float (valor); otherwise grados_lon is
\* kept as its operands, entre = <<latitud>> meaning
\* metros / (111_320.0 * cos(radians(latitud))).  raised: ZeroDivisionError
metros_a_grados(metros, latitud) ==
    LET cos == coseno(latitud)
        grados_lat == EntreEntero(DeEntero(metros), MetrosPorGrado)
        denominador == PorEntero(DeEntero(MetrosPorGrado), 1)
    IN  [raised |-> cos.signo = 0,
         grados_lat |-> grados_lat,
         grados_lon |->
             IF cos.uno
             THEN [valor |-> <<EntreEntero(DeEntero(metros),
                                           ValorEntero(denominador))>>,
                   entre |-> <<>>]
             ELSE [valor |-> <<>>, entre |-> <<latitud>>]]

\* No call of metros_a_grados yet
SinConversion ==
    [hecha |-> FALSE, metros |-> 0, latitud |-> 0, raised |-> FALSE,
     grados_lat |-> DeEntero(0), grados_lon |-> [valor |-> <<>>, entre |-> <<>>]]

\* The figure mapa.generar_mapa builds, vis being its zonas_visibles and dz
\* what dibujar_zonas did with them
figura(c, vis, dz) ==
    LET nada == [capas |-> <<>>, subtitulo |-> <<>>, guardado |-> FALSE,
                 error |-> "ninguno", visibles |-> <<>>, marcadores |-> <<>>,
                 filas |-> <<>>]
    IN  IF AnchoCero(c)
        THEN [nada EXCEPT !.error = "ZeroDivisionError"]
        ELSE IF dz.raised
        THEN [nada EXCEPT !.capas = CapasEstados \o <<"zonas">>,
                          !.error = "ZeroDivisionError",
                          !.visibles = vis, !.marcadores = dz.marcadores]
        ELSE LET dibujo ==
                     [nada EXCEPT
                        !.capas = CapasEstados
                                  \o (IF vis # <<>> THEN <<"zonas">> ELSE <<>>),
                        !.visibles = vis, !.marcadores = dz.marcadores,
                        !.filas = dibujar_tabla(vis)]
                 \* n_visibles, put in the subtitle when above 0
                 rotulado ==
                     [dibujo EXCEPT
                        !.subtitulo = IF Len(vis) > 0 THEN <<Len(vis)>> ELSE <<>>]
             IN  IF EsNaN(c)
                 THEN [dibujo EXCEPT !.error = "ValueError"]
                 ELSE [rotulado EXCEPT !.guardado = TRUE]

\* mapa.generar_mapa on the loaded states and the zones zs: the state layers,
\* then the zones that fall inside the area with their legend
generar_mapa_mapa(c, zs) ==
    figura(c, zonas_visibles(zs, c), dibujar_zonas(zonas_visibles(zs, c), c))

\* ------------------------------------------------------ the dataset tables
\* A geometry of a table: the rectangle [x1, x2] x [y1, y2] in degrees of
\* longitude and latitude; a point when the corners meet, a straight
\* segment when one side has no length
Caja(x1, y1, x2, y2) == [x1 |-> x1, y1 |-> y1, x2 |-> x2, y2 |-> y2]

Punto(x, y) == Caja(x, y, x, y)

\* A row of a GeoDataFrame: its geometry, and attr[col] = <<value>> for a
\* column that holds a value, <<>> for a missing one (NaN, None)
Fila(geom, attr) == [geom |-> geom, attr |-> attr]

\* A GeoDataFrame: the columns it has, and its rows (every row carries the
\* attributes of all columns the tables of the model know; the table shows
\* those of its own columns)
Tabla(columnas, filas_) == [columnas |-> columnas, filas |-> filas_]

\* gdf[mask]: the rows that pass, in order, the columns kept
filtrar(t, Pasa(_)) == Tabla(t.columnas, SelectSeq(t.filas, Pasa))

\* g.intersects(box(lon_min, lat_min, lon_max, lat_max)): the two closed
\* sets share a point; no comparison holds on a NaN bound
intersects(g, c) ==
    /\ MayorIgual(c.lon_max, Num(g.x1)) /\ MayorIgual(Num(g.x2), c.lon_min)
    /\ MayorIgual(c.lat_max, Num(g.y1)) /\ MayorIgual(Num(g.y2), c.lat_min)

\* g.within(box(...)): g lies in the closed box and its interior meets the
\* interior of the box, so a point on the edge of the box is not within it
within(g, c) ==
    /\ MayorIgual(Num(g.x1), c.lon_min) /\ MayorIgual(c.lon_max, Num(g.x2))
    /\ MayorIgual(Num(g.y1), c.lat_min) /\ MayorIgual(c.lat_max, Num(g.y2))
    /\ g.x1 = g.x2 => (Menor(c.lon_min, Num(g.x1)) /\ Menor(Num(g.x1), c.lon_max))
    /\ g.y1 = g.y2 => (Menor(c.lat_min, Num(g.y1)) /\ Menor(Num(g.y1), c.lat_max))

\* series.isin(valores) on one row: a missing value is in no list
isin(campo, valores) == campo # <<>> /\ campo[1] \in valores

\* series == valor on one row
igual(campo, valor) == campo # <<>> /\ campo[1] = valor

\* sub occurs in texto
ocurre(sub, texto) ==
    \E i \in 1..(Len(texto) - Len(sub) + 1) :
        SubSeq(texto, i, i + Len(sub) - 1) = sub

\* series.str.contains("Baja", case=False, na=False) on one row
contains_baja(campo) ==
    campo # <<>> /\ ocurre(<<"b", "a", "j", "a">>, lower(campo[1]))

BajaCalifornia ==
    <<"B", "a", "j", "a", " ", "C", "a", "l", "i", "f", "o", "r", "n", "i", "a">>

BajaCaliforniaSur == BajaCalifornia \o <<" ", "S", "u", "r">>

estados_peninsula == {BajaCalifornia, BajaCaliforniaSur}

\* The fallback of cargar_estados taken whether or not the exact names match
cargar_estados_parcial(t) ==
    IF ~({"admin", "name"} \subseteq t.columnas)
    THEN [raised |-> TRUE, tabla |-> Tabla({}, <<>>)]
    ELSE [raised |-> FALSE,
          tabla |-> filtrar(t, LAMBDA f : igual(f.attr["admin"], "Mexico")
                                          /\ contains_baja(f.attr["name"]))]

\* cargar_estados(ruta, lat_min, lat_max, lon_min, lon_max) of dibuja and
\* cargar_datos(archivo) of the other two scripts on the table t of the
\* archive; raised: KeyError, the table has no "admin" or no "name" column
cargar_estados(t) ==
    IF ~({"admin", "name"} \subseteq t.columnas)
    THEN [raised |-> TRUE, tabla |-> Tabla({}, <<>>)]
    ELSE IF \E i \in 1..Len(t.filas) :
                /\ igual(t.filas[i].attr["admin"], "Mexico")
                /\ isin(t.filas[i].attr["name"], estados_peninsula)
    THEN [raised |-> FALSE,
          tabla |-> filtrar(t, LAMBDA f : igual(f.attr["admin"], "Mexico")
                                          /\ isin(f.attr["name"], estados_peninsula))]
    ELSE [raised |-> FALSE,
          tabla |-> filtrar(t, LAMBDA f : igual(f.attr["admin"], "Mexico")
                                          /\ contains_baja(f.attr["name"]))]

\* The rows of t of the country Mexico by the column col, t itself when
\* there is none
solo_mexico(t, col) ==
    IF \E i \in 1..Len(t.filas) : igual(t.filas[i].attr[col], "Mexico")
    THEN filtrar(t, LAMBDA f : igual(f.attr[col], "Mexico"))
    ELSE t

\* cargar_ciudades(ruta, lat_min, lat_max, lon_min, lon_max) on the table t
cargar_ciudades(t, c) ==
    LET ciudades == filtrar(t, LAMBDA f : within(f.geom, c))
    IN  IF "SOV0NAME" \in t.columnas THEN solo_mexico(ciudades, "SOV0NAME")
        ELSE IF "ADM0NAME" \in t.columnas THEN solo_mexico(ciudades, "ADM0NAME")
        ELSE ciudades

paises_interes == {"Mexico", "United States of America"}

\* The name column taken in the order NAME, ADMIN
cargar_paises_name(t, c) ==
    IF "NAME" \in t.columnas
    THEN filtrar(t, LAMBDA f : isin(f.attr["NAME"], paises_interes))
    ELSE IF "ADMIN" \in t.columnas
    THEN filtrar(t, LAMBDA f : isin(f.attr["ADMIN"], paises_interes))
    ELSE filtrar(t, LAMBDA f : intersects(f.geom, c))

\* cargar_paises(ruta, lat_min, lat_max, lon_min, lon_max) on the table t
cargar_paises(t, c) ==
    IF "ADMIN" \in t.columnas
    THEN filtrar(t, LAMBDA f : isin(f.attr["ADMIN"], paises_interes))
    ELSE IF "NAME" \in t.columnas
    THEN filtrar(t, LAMBDA f : isin(f.attr["NAME"], paises_interes))
    ELSE filtrar(t, LAMBDA f : intersects(f.geom, c))

\* The roads that lie wholly inside the box
cargar_carreteras_dentro(t, c) == filtrar(t, LAMBDA f : within(f.geom, c))

\* cargar_carreteras(ruta, lat_min, lat_max, lon_min, lon_max) on the table t
cargar_carreteras(t, c) == filtrar(t, LAMBDA f : intersects(f.geom, c))


\* ------------------------------------------- loading the tables, on its own
Columnas ==
    {"admin", "name", "ADMIN", "NAME", "SOV0NAME", "ADM0NAME", "POP_MAX",
     "POP_MIN", "pop_max", "pop_min"}

SinAtributos == [col \in Columnas |-> <<>>]

\* Rows of the states archive: admin and name
Estado(admin, name) ==
    Fila(Caja(-117, 23, -109, 32),
         [SinAtributos EXCEPT !["admin"] = <<admin>>, !["name"] = name])

FilasEstados ==
    {Estado("Mexico", <<BajaCalifornia>>),
     Estado("Mexico", <<BajaCaliforniaSur>>),
     Estado("Mexico", <<<<"S", "o", "n", "o", "r", "a">>>>),
     Estado("Mexico", <<<<"B", "A", "J", "A", " ", "S", "u", "r">>>>),
     Estado("Mexico", <<>>),
     Estado("Guatemala", <<<<"B", "a", "j", "a", " ", "V", "e", "r", "a", "p", "a", "z">>>>),
     Estado("United States of America", <<BajaCalifornia>>)}

\* Rows of the populated places archive: a point, the country in both
\* country columns, the name in NAME and name, and the four populations
Ciudad(x, y, pais, nombre, pop) ==
    Fila(Punto(x, y),
         [SinAtributos EXCEPT !["SOV0NAME"] = <<pais>>, !["ADM0NAME"] = <<pais>>,
                              !["NAME"] = nombre, !["name"] = nombre,
                              !["POP_MAX"] = pop, !["POP_MIN"] = <<60000>>,
                              !["pop_max"] = <<200000>>, !["pop_min"] = <<>>])

FilasCiudades ==
    {Ciudad(-113, 25, "Mexico", <<"Uno">>, <<500001>>),
     Ciudad(-112, 26, "Mexico", <<"Dos">>, <<500000>>),
     Ciudad(-113, 22, "Mexico", <<"Tres">>, <<100001>>),
     Ciudad(-108, 33, "Mexico", <<"Cuatro">>, <<100000>>),
     Ciudad(-100, 40, "Mexico", <<"Cinco">>, <<50001>>),
     Ciudad(-111, 27, "Mexico", <<"Seis">>, <<50000>>),
     Ciudad(-110, 28, "United States of America", <<>>, <<0>>),
     Ciudad(-109, 29, "Mexico", <<"Ocho">>, <<>>),
     Ciudad(-112, 27, "Mexico", <<"Nueve">>, <<100000>>),
     Ciudad(-111, 26, "Mexico", <<"Diez">>, <<100001>>),
     Ciudad(-112, 28, "Mexico", <<"Once">>, <<50001>>)}

ColumnasCiudades ==
    {{"NAME", "SOV0NAME", "ADM0NAME", "POP_MAX", "POP_MIN", "pop_max", "pop_min"},
     {"NAME", "ADM0NAME", "POP_MIN", "pop_max"},
     {"name", "pop_max", "pop_min"},
     {"NAME", "name", "pop_min"},
     {"NAME"}}

\* Rows of the countries archive: ADMIN and NAME
Pais(x1, y1, x2, y2, admin, name) ==
    Fila(Caja(x1, y1, x2, y2),
         [SinAtributos EXCEPT !["ADMIN"] = admin, !["NAME"] = name])

FilasPaises ==
    {Pais(-118, 14, -86, 33, <<"Mexico">>, <<"Mexico">>),
     Pais(-125, 33, -66, 49, <<"United States of America">>, <<"United States">>),
     Pais(-141, 49, -52, 83, <<"Canada">>, <<"Canada">>),
     Pais(-92, 14, -88, 18, <<"Guatemala">>, <<"Mexico">>),
     Pais(-120, 18, -119, 19, <<>>, <<"United States of America">>)}

ColumnasPaises == {{"ADMIN", "NAME"}, {"ADMIN"}, {"NAME"}, {}}

\* Rows of the roads archive: straight segments
FilasCarreteras ==
    {Fila(Caja(-115, 25, -110, 25), SinAtributos),
     Fila(Caja(-125, 30, -119, 30), SinAtributos),
     Fila(Caja(-108, 33, -100, 33), SinAtributos),
     Fila(Caja(-120, 22, -108, 22), SinAtributos),
     Fila(Caja(-107, 20, -107, 40), SinAtributos),
     Fila(Caja(-130, 10, -125, 10), SinAtributos)}

\* The tables of at most n rows of a pool, for each of the column sets
Tablas(columnas, pool, n) ==
    {Tabla(cols, fs) : cols \in columnas, fs \in UNION {[1..m -> pool] : m \in 0..n}}

\* The archives on disk: one dataset takes every table of its kind, the
\* other three hold a fixed table
TablasFijas ==
    [k \in Claves |->
        CASE k = "estados" ->
                 Tabla({"admin", "name"}, <<Estado("Mexico", <<BajaCalifornia>>)>>)
          [] k = "ciudades" ->
                 Tabla({"NAME", "POP_MAX"},
                       <<Ciudad(-113, 25, "Mexico", <<"Uno">>, <<500001>>)>>)
          [] k = "paises" ->
                 Tabla({"ADMIN"},
                       <<Pais(-118, 14, -86, 33, <<"Mexico">>, <<"Mexico">>)>>)
          [] k = "carreteras" ->
                 Tabla({}, <<Fila(Caja(-115, 25, -110, 25), SinAtributos)>>)]

DiscosTablas ==
    {[TablasFijas EXCEPT !["estados"] = t] :
        t \in Tablas({{"admin", "name"}, {"admin"}}, FilasEstados, MaxFilas)}
    \cup {[TablasFijas EXCEPT !["ciudades"] = t] :
             t \in Tablas(ColumnasCiudades, FilasCiudades, MaxFilas)}
    \cup {[TablasFijas EXCEPT !["paises"] = t] :
             t \in Tablas(ColumnasPaises, FilasPaises, MaxFilas)}
    \cup {[TablasFijas EXCEPT !["carreteras"] = t] :
             t \in Tablas({{}}, FilasCarreteras, MaxFilas)}

\* The archives of a run of the whole program: the cities and the roads
\* archive each hold one row near the middle of the default area, or none
TablasRun ==
    {[TablasFijas EXCEPT !["ciudades"] = Tabla({"NAME", "POP_MAX"}, cs),
                         !["carreteras"] = Tabla({}, rs)] :
        cs \in {<<>>, <<Ciudad(-113, 25, "Mexico", <<"Uno">>, <<500001>>)>>},
        rs \in {<<>>, <<Fila(Caja(-115, 25, -110, 25), SinAtributos)>>}}

\* mapa_baja_california.png, the file the variable imagen stands for
IMAGEN == "mapa_baja_california.png"

\* The font size of the label of the row f of the cities table t: the first
\* population column the table has, and the tier of the value it holds
fontsize_tiers_laxos(t, f) ==
    LET candidatos == SelectSeq(<<"POP_MAX", "POP_MIN", "pop_max", "pop_min">>,
                                LAMBDA col : col \in t.columnas)
    IN  IF candidatos = <<>> THEN 7
        ELSE IF f.attr[candidatos[1]] = <<>> THEN 7
        ELSE IF f.attr[candidatos[1]][1] = 0 THEN 7
        ELSE IF f.attr[candidatos[1]][1] >= 500000 THEN 10
        ELSE IF f.attr[candidatos[1]][1] >= 100000 THEN 9
        ELSE IF f.attr[candidatos[1]][1] >= 50000 THEN 8
        ELSE 7

fontsize(t, f) ==
    LET candidatos == SelectSeq(<<"POP_MAX", "POP_MIN", "pop_max", "pop_min">>,
                                LAMBDA col : col \in t.columnas)
    IN  \* col_pop is None
        IF candidatos = <<>> THEN 7
        \* row.get(col_pop, 0) is missing or 0
        ELSE IF f.attr[candidatos[1]] = <<>> THEN 7
        ELSE IF f.attr[candidatos[1]][1] = 0 THEN 7
        ELSE IF f.attr[candidatos[1]][1] > 500000 THEN 10
        ELSE IF f.attr[candidatos[1]][1] > 100000 THEN 9
        ELSE IF f.attr[candidatos[1]][1] > 50000 THEN 8
        ELSE 7

\* row.get(col_nombre, ""): the name column is NAME when the table has it,
\* "name" otherwise; <<>> when the row has no name to show
nombre_de(t, f) ==
    IF "NAME" \in t.columnas THEN f.attr["NAME"]
    ELSE IF "name" \in t.columnas THEN f.attr["name"]
    ELSE <<>>

\* The loop over ciudades.iterrows() of dibuja.generar_mapa: one label for
\* each row that has a name
etiquetar_ciudades(t) ==
    LET con_nombre == SelectSeq(t.filas, LAMBDA f : nombre_de(t, f) # <<>>)
    IN  [i \in 1..Len(con_nombre) |->
            [nombre |-> nombre_de(t, con_nombre[i])[1],
             x |-> con_nombre[i].geom.x1, y |-> con_nombre[i].geom.y1,
             fontsize |-> fontsize(t, con_nombre[i])]]

\* The file every script hands to plt.savefig, and the dpi
output_file_por_script(s) ==
    CASE s = "dibuja" -> "mapa_dibuja.png"
      [] s = "mapa" -> "mapa_zonas.png"
      [] OTHER -> "mapa_baja_california.png"

output_file(s) ==
    CASE s = "dibuja" -> "mapa_baja_california.png"
      [] s = "mapa" -> "mapa_baja_california.png"
      [] OTHER -> "mapa_baja_california.png"

dpi(s) ==
    CASE s = "dibuja" -> 200
      [] s = "mapa" -> 200
      [] OTHER -> 200

\* The line 'Zonas dibujadas' of the final report of mapa.generar_mapa,
\* printed when the run holds any zone
zonas_dibujadas(zs) == IF zs # <<>> THEN <<Len(zs)>> ELSE <<>>

\* The loader of main for the dataset k
cargar(k, t, c) ==
    CASE k = "estados" -> cargar_estados(t).tabla
      [] k = "ciudades" -> cargar_ciudades(t, c)
      [] k = "paises" -> cargar_paises(t, c)
      [] k = "carreteras" -> cargar_carreteras(t, c)


\* ------------------------------------------------------------ the scripts
Scripts == {"dibuja", "mapa", "mapa_bc"}

\* The order of the steps of each __main__.  Functions exercised on their own
\* (script "ninguno") end after pedir_paleta or pedir_coordenadas.
Siguiente(s, paso) ==
    CASE s = "dibuja" /\ paso = "inicio" -> "pedir_datasets"
      [] s = "dibuja" /\ paso = "pedir_datasets" -> "descargar_datasets_seleccionados"
      [] s = "dibuja" /\ paso = "descargar_datasets_seleccionados" -> "cargar_paletas"
      [] s \in {"mapa", "mapa_bc"} /\ paso = "inicio" -> "descargar_datos"
      [] s \in {"mapa", "mapa_bc"} /\ paso = "descargar_datos" -> "cargar_paletas"
      [] paso = "cargar_paletas" -> "pedir_paleta"
      [] s = "mapa" /\ paso = "pedir_paleta" -> "zonas"
      [] s = "mapa" /\ paso = "zonas" -> "pedir_coordenadas"
      [] s \in {"dibuja", "mapa_bc"} /\ paso = "pedir_paleta" -> "pedir_coordenadas"
      [] s \in Scripts /\ paso = "pedir_coordenadas" -> "cargar_datos"
      [] s \in Scripts /\ paso = "cargar_datos" -> "generar_mapa"
      [] OTHER -> "fin"

SinPaleta == [nombre |-> "ninguna"]

\* Texts typed at the prompts of a whole run
EntradasDatasets ==
    {<<>>, <<"2">>, <<"3">>, <<"2", ",", "3">>, <<"4", ",", "2">>,
     <<"3", ",", " ", "4">>, <<"9", ",", "x">>}

EntradasPaletaRun == {<<"2">>}

EntradasCoordRun ==
    {<<<<>>, <<>>, <<>>, <<>>>>,
     <<<<>>, <<>>, <<"-", "9">>, <<"-", "9">>>>,
     <<<<"x">>, <<>>, <<>>, <<>>>>,
     <<<<>>, <<"n", "a", "n">>, <<>>, <<>>>>}

ArchivosPaletasRun ==
    {DocPaletas(FALSE, FALSE, FALSE, FALSE, FALSE, <<>>),
     DocPaletas(TRUE, TRUE, TRUE, TRUE, FALSE, <<PaletaOscura, PaletaMar>>)}

\* The registry and the zone files of a whole run: two layers registered,
\* the file of the second one missing
RegistroRun ==
    ArchivoDeZonas("objeto", "lista",
                   <<Capa(<<"a.json">>), Capa(<<"b.json">>)>>, <<>>)

DiscoZonasRun ==
    [n \in {"a.json", "b.json"} |->
        IF n = "a.json"
        THEN ArchivoDeZonas(
                 "objeto", "lista",
                 <<Zona(1, <<"Uno">>, <<25>>, <<-113>>, <<<<"r", "o", "j", "o">>>>)>>,
                 <<"Capa A">>)
        ELSE SinArchivo]

EntradasZonasRun == {<<>>, <<"1", ",", "2">>}

\* Nothing read, loaded, typed, written or reported yet
SinCarga ==
    /\ tablas = <<>>
    /\ cargados = <<>>
    /\ rotulos = <<>>
    /\ entradaDatasets = <<>>
    /\ entradaZonas = <<>>
    /\ guardados = <<>>
    /\ informe = <<>>

\* The state of a run that has not started
CorridaVacia ==
    /\ script = "ninguno"
    /\ pc = "inactivo"
    /\ pasos = <<>>
    /\ seleccion = <<>>
    /\ pendientes = <<>>
    /\ rutas = {}
    /\ fallidas = {}
    /\ ultimo = SinLlamada
    /\ paletas = <<>>
    /\ entradaPaleta = <<>>
    /\ paleta = SinPaleta
    /\ entradasCoord = <<>>
    /\ coords = SinCoords
    /\ coords2 = SinCoords
    /\ datos = {}
    /\ vacias = {}
    /\ capas = <<>>
    /\ subtitulo = <<>>
    /\ escrituras = 0
    /\ error = "ninguno"
    /\ SinZonas

Init ==
    /\ archivo \in [Claves -> EstadosArchivo]
    /\ archivoPaletas \in ArchivosPaletasRun
    /\ imagen = "ninguna"
    /\ archivoCapas = RegistroRun
    /\ archivosZonas = DiscoZonasRun
    /\ conversion = SinConversion
    /\ SinCarga
    /\ corridas = 0
    /\ llamadas = 0
    /\ descargas = [k \in Claves |-> 0]
    /\ removido = [k \in Claves |-> FALSE]
    /\ CorridaVacia

\* python <script>.py
Iniciar ==
    \E s \in Scripts :
        /\ script = "ninguno"
        /\ pc = "inactivo"
        /\ corridas < MaxRuns
        /\ script' = s
        /\ corridas' = corridas + 1
        /\ pc' = Siguiente(s, "inicio")
        /\ UNCHANGED <<varsCarga, varsZonas, varsDisco, llamadas, descargas, removido, pasos,
                       varsDescarga, varsPaleta, varsCoord, varsMapa, error>>

\* What a call of the fetcher fn on dataset k, the network answering red,
\* leaves on disk and in the history; r is what the call returned
Fetch(fn, k, red, r) ==
    /\ archivo' = [archivo EXCEPT ![k] = r.archivo]
    /\ llamadas' = llamadas + 1
    /\ descargas' =
           [descargas EXCEPT ![k] = @ + (IF r.intentos > 0 /\ ~r.fallo THEN 1 ELSE 0)]
    /\ ultimo' = [fn |-> fn, clave |-> k, antes |-> archivo[k],
                  previas |-> descargas[k], red |-> red, ret |-> r.ret,
                  intentos |-> r.intentos]

\* dibuja.__main__ paso 1: seleccion = pedir_datasets()
PedirDatasets ==
    \E texto \in EntradasDatasets :
        /\ pc = "pedir_datasets"
        /\ seleccion' = pedir_datasets(texto)
        /\ pendientes' = seleccion'
        /\ pasos' = Append(pasos, "pedir_datasets")
        /\ pc' = Siguiente(script, "pedir_datasets")
        /\ UNCHANGED <<varsCarga, varsZonas, varsDisco, varsHistoria, script, rutas, fallidas, ultimo,
                       varsPaleta, varsCoord, varsMapa, error>>

\* One turn of the for loop of descargar_datasets_seleccionados
DescargarSeleccionado ==
    \E red \in Red :
        LET clave == Head(pendientes)
            r == descargar_dataset(archivo[clave], red)
        IN  /\ pc = "descargar_datasets_seleccionados"
            /\ pendientes # <<>>
            /\ Fetch("descargar_dataset", clave, red, r)
            /\ rutas' = IF r.ret = "ruta" THEN rutas \cup {clave} ELSE rutas
            /\ fallidas' = IF r.fallo THEN fallidas \cup {clave} ELSE fallidas
            /\ pendientes' = Tail(pendientes)
            /\ pasos' = IF pendientes = seleccion
                        THEN Append(pasos, "descargar_datasets_seleccionados")
                        ELSE pasos
            /\ pc' = IF Tail(pendientes) = <<>>
                     THEN Siguiente(script, "descargar_datasets_seleccionados")
                     ELSE pc
            /\ UNCHANGED <<varsCarga, varsZonas, archivoPaletas, imagen, corridas, removido, script,
                           seleccion, varsPaleta, varsCoord, varsMapa, error>>

\* mapa.__main__ and mapa_baja_california.__main__ paso 1:
\* archivo = descargar_datos()
DescargarDatos ==
    \E red \in Red :
        LET r == descargar_datos(archivo["estados"], red)
        IN  /\ pc = "descargar_datos"
            /\ Fetch("descargar_datos", "estados", red, r)
            /\ rutas' = IF r.ret = "ruta" THEN {"estados"} ELSE {}
            /\ fallidas' = IF r.fallo THEN {"estados"} ELSE {}
            /\ pasos' = Append(pasos, "descargar_datos")
            /\ pc' = IF r.ret = "raise" THEN "abortado"
                     ELSE Siguiente(script, "descargar_datos")
            /\ error' = IF r.ret = "raise" THEN "URLError" ELSE error
            /\ UNCHANGED <<varsCarga, varsZonas, archivoPaletas, imagen, corridas, removido, script,
                           seleccion, pendientes, varsPaleta, varsCoord,
                           varsMapa>>

\* __main__: paletas = cargar_paletas()
CargarPaletas ==
    LET r == cargar_paletas(archivoPaletas)
    IN  /\ pc = "cargar_paletas"
        /\ paletas' = r.paletas
        /\ pasos' = Append(pasos, "cargar_paletas")
        /\ pc' = IF r.raised THEN "abortado" ELSE Siguiente(script, "cargar_paletas")
        /\ error' = IF r.raised THEN "Exception" ELSE error
        /\ UNCHANGED <<varsCarga, varsZonas, varsDisco, varsHistoria, script, varsDescarga,
                       entradaPaleta, paleta, varsCoord, varsMapa>>

\* __main__: paleta = pedir_paleta(paletas), the text typed drawn from E
PedirPaletaCon(E) ==
    \E texto \in E :
        LET r == pedir_paleta(paletas, texto)
        IN  /\ pc = "pedir_paleta"
            /\ entradaPaleta' = texto
            /\ paleta' = IF r.raised THEN paleta ELSE r.elegida
            /\ pasos' = Append(pasos, "pedir_paleta")
            /\ pc' = IF r.raised THEN "abortado"
                     ELSE Siguiente(script, "pedir_paleta")
            /\ error' = IF r.raised THEN "IndexError" ELSE error
            /\ UNCHANGED <<varsCarga, varsZonas, varsDisco, varsHistoria, script, varsDescarga,
                           paletas, varsCoord, varsMapa>>

PedirPaleta == PedirPaletaCon(EntradasPaletaRun)

\* mapa.__main__ paso 3: the zone layers are read and chosen
PasoZonas ==
    \E texto \in EntradasZonasRun :
        LET registradas == cargar_capas_zonas(archivoCapas)
            activas == pedir_zonas_activas(registradas, archivosZonas, texto)
        IN  /\ pc = "zonas"
            /\ capasActivas' = activas
            /\ zonas' = IF activas # <<>>
                        THEN cargar_zonas(archivosZonas, activas) ELSE <<>>
            /\ pasos' = Append(pasos, "zonas")
            /\ pc' = Siguiente(script, "zonas")
            /\ UNCHANGED <<varsCarga, archivoCapas, archivosZonas, visibles, marcadores,
                           filas, conversion, varsDisco, varsHistoria, script, varsDescarga,
                           varsPaleta, varsCoord, varsMapa, error>>

\* __main__: lat_min, lat_max, lon_min, lon_max = pedir_coordenadas(), the
\* four texts typed drawn from E
PedirCoordenadasCon(E) ==
    \E e \in E :
        LET r == pedir_coordenadas(e)
        IN  /\ pc = "pedir_coordenadas"
            /\ entradasCoord' = e
            /\ coords' = r
            /\ pasos' = Append(pasos, "pedir_coordenadas")
            /\ pc' = IF r.raised THEN "abortado"
                     ELSE Siguiente(script, "pedir_coordenadas")
            /\ error' = IF r.raised THEN "ValueError" ELSE error
            /\ UNCHANGED <<varsCarga, varsZonas, varsDisco, varsHistoria, script, varsDescarga,
                           varsPaleta, coords2, varsMapa>>

PedirCoordenadas == PedirCoordenadasCon(EntradasCoordRun)

\* The datasets the loaders of __main__ read, in the order of the calls:
\* dibuja reads every key of rutas, the other two always read the states
PorCargar(s, r) ==
    IF s = "dibuja" THEN SelectSeq(claves, LAMBDA k : k \in r) ELSE <<"estados">>

\* gpd.read_file("zip://" + ruta) raises unless the archive is a whole zip
Legible(f, k, r) == k \in r /\ f[k] = "completo"

\* Datasets loaded before the first archive that cannot be read
RECURSIVE Cargados(_, _, _)
Cargados(orden, f, r) ==
    IF orden = <<>> \/ ~Legible(f, Head(orden), r) THEN {}
    ELSE {Head(orden)} \cup Cargados(Tail(orden), f, r)

\* __main__: the calls of cargar_estados / cargar_ciudades / cargar_paises /
\* cargar_carreteras (dibuja) or cargar_datos (mapa, mapa_baja_california)
\* The archives hold the tables t: what the loaders of the step leave
CargarDatosDe(t, leidos, completo) ==
    \E falla \in {"estados" \in leidos /\ cargar_estados(t["estados"]).raised} :
    \E cs \in {IF falla THEN <<>>
                ELSE [k \in leidos |-> cargar(k, t[k], coords)]} :
        /\ pc = "cargar_datos"
        /\ tablas' = [k \in leidos |-> t[k]]
        /\ cargados' = cs
        /\ datos' = IF falla THEN {} ELSE leidos
        /\ vacias' = IF falla THEN {}
                     ELSE {k \in leidos \cap {"ciudades", "carreteras"} :
                              cs[k].filas = <<>>}
        /\ pasos' = Append(pasos, "cargar_datos")
        /\ pc' = IF completo /\ ~falla THEN Siguiente(script, "cargar_datos")
                 ELSE "abortado"
        /\ error' = IF falla THEN "KeyError"
                    ELSE IF completo THEN error ELSE "DriverError"
        /\ UNCHANGED <<rotulos, entradaDatasets, entradaZonas, guardados, informe,
                       varsZonas, varsDisco, varsHistoria, script, varsDescarga,
                       varsPaleta, varsCoord, capas, subtitulo, escrituras>>

CargarDatosCon(T) ==
    /\ pc = "cargar_datos"
    /\ \E leidos \in {Cargados(PorCargar(script, rutas), archivo, rutas)} :
       \E t \in {[k \in leidos |-> d[k]] : d \in T} :
           CargarDatosDe(t, leidos, leidos = Elementos(PorCargar(script, rutas)))

CargarDatos == CargarDatosCon(TablasRun)

\* __main__: generar_mapa(...)
GenerarMapa ==
    \E r \in {IF script = "dibuja"
               THEN generar_mapa_dibuja(datos, vacias, coords, seleccion)
               ELSE IF script = "mapa"
               THEN generar_mapa_mapa(coords, zonas)
               ELSE generar_mapa_estados(coords)} :
        /\ pc = "generar_mapa"
        /\ script \in Scripts
        /\ capas' = r.capas
        /\ visibles' = IF script = "mapa" THEN r.visibles ELSE visibles
        /\ marcadores' = IF script = "mapa" THEN r.marcadores ELSE marcadores
        /\ filas' = IF script = "mapa" THEN r.filas ELSE filas
        /\ rotulos' = IF script = "dibuja" /\ Contiene(r.capas, "ciudades")
                      THEN etiquetar_ciudades(cargados["ciudades"]) ELSE rotulos
        /\ subtitulo' = r.subtitulo
        /\ escrituras' = IF r.guardado THEN escrituras + 1 ELSE escrituras
        /\ guardados' = IF r.guardado
                        THEN Append(guardados, [output_file |-> output_file(script),
                                                dpi |-> dpi(script)])
                        ELSE guardados
        /\ imagen' = IF r.guardado /\ output_file(script) = IMAGEN
                     THEN script ELSE imagen
        /\ informe' = IF r.guardado /\ script = "mapa"
                      THEN zonas_dibujadas(zonas) ELSE informe
        /\ pasos' = Append(pasos, "generar_mapa")
        /\ pc' = IF r.guardado THEN "fin" ELSE "abortado"
        /\ error' = r.error
        /\ UNCHANGED <<tablas, cargados, entradaDatasets, entradaZonas,
                       archivoCapas, archivosZonas, capasActivas, zonas,
                       conversion, archivo, archivoPaletas, varsHistoria, script,
                       varsDescarga, varsPaleta, varsCoord, datos, vacias>>

\* The process exits; what it leaves is the file system
TerminarCorrida ==
    /\ script \in Scripts
    /\ pc \in {"fin", "abortado"}
    /\ script' = "ninguno"
    /\ pc' = "inactivo"
    /\ pasos' = <<>>
    /\ seleccion' = <<>>
    /\ pendientes' = <<>>
    /\ rutas' = {}
    /\ fallidas' = {}
    /\ ultimo' = SinLlamada
    /\ paletas' = <<>>
    /\ entradaPaleta' = <<>>
    /\ paleta' = SinPaleta
    /\ entradasCoord' = <<>>
    /\ coords' = SinCoords
    /\ coords2' = SinCoords
    /\ datos' = {}
    /\ vacias' = {}
    /\ capas' = <<>>
    /\ subtitulo' = <<>>
    /\ escrituras' = 0
    /\ error' = "ninguno"
    /\ capasActivas' = <<>>
    /\ zonas' = <<>>
    /\ visibles' = <<>>
    /\ marcadores' = <<>>
    /\ filas' = <<>>
    /\ tablas' = <<>>
    /\ cargados' = <<>>
    /\ rotulos' = <<>>
    /\ entradaDatasets' = <<>>
    /\ entradaZonas' = <<>>
    /\ guardados' = <<>>
    /\ informe' = <<>>
    /\ UNCHANGED <<archivoCapas, archivosZonas, conversion, varsDisco,
                   varsHistoria>>

Next ==
    \/ Iniciar
    \/ PedirDatasets
    \/ DescargarSeleccionado
    \/ DescargarDatos
    \/ CargarPaletas
    \/ PedirPaleta
    \/ PasoZonas
    \/ PedirCoordenadas
    \/ CargarDatos
    \/ GenerarMapa
    \/ TerminarCorrida

Spec == Init /\ [][Next]_vars

\* ------------------------------------------ the fetcher, call after call
\* The state of the archives over a sequence of calls of the fetcher, made by
\* whichever script runs next, with removals from outside in between.
InitFetch ==
    /\ archivo \in [Claves -> EstadosArchivo]
    /\ archivoPaletas = DocPaletas(FALSE, FALSE, FALSE, FALSE, FALSE, <<>>)
    /\ imagen = "ninguna"
    /\ archivoCapas = SinArchivo
    /\ archivosZonas = SinArchivosZonas
    /\ conversion = SinConversion
    /\ SinCarga
    /\ corridas = 0
    /\ llamadas = 0
    /\ descargas = [k \in Claves |-> 0]
    /\ removido = [k \in Claves |-> FALSE]
    /\ CorridaVacia

\* dibuja.py calls descargar_dataset(k)
LlamarDescargarDataset ==
    \E k \in Claves, red \in Red :
        /\ llamadas < MaxLlamadas
        /\ Fetch("descargar_dataset", k, red, descargar_dataset(archivo[k], red))
        /\ UNCHANGED <<varsCarga, varsZonas, archivoPaletas, imagen, corridas, removido, script, pc,
                       pasos, seleccion, pendientes, rutas, fallidas,
                       varsPaleta, varsCoord, varsMapa, error>>

\* mapa.py or mapa_baja_california.py calls descargar_datos()
LlamarDescargarDatos ==
    \E red \in Red :
        /\ llamadas < MaxLlamadas
        /\ Fetch("descargar_datos", "estados", red,
                 descargar_datos(archivo["estados"], red))
        /\ UNCHANGED <<varsCarga, varsZonas, archivoPaletas, imagen, corridas, removido, script, pc,
                       pasos, seleccion, pendientes, rutas, fallidas,
                       varsPaleta, varsCoord, varsMapa, error>>

\* Somebody deletes an archive of DATOS_DIR
BorrarExterno ==
    \E k \in Claves :
        /\ llamadas \in 1..(MaxLlamadas - 1)
        /\ archivo[k] # "ausente"
        /\ ~removido[k]
        /\ archivo' = [archivo EXCEPT ![k] = "ausente"]
        /\ removido' = [removido EXCEPT ![k] = TRUE]
        /\ ultimo' = SinLlamada
        /\ UNCHANGED <<varsCarga, varsZonas, archivoPaletas, imagen, corridas, llamadas, descargas,
                       script, pc, pasos, seleccion, pendientes, rutas,
                       fallidas, varsPaleta, varsCoord, varsMapa, error>>

NextFetch == LlamarDescargarDataset \/ LlamarDescargarDatos \/ BorrarExterno

SpecFetch == InitFetch /\ [][NextFetch]_vars

\* ------------------------------------------------- the palette functions
\* cargar_paletas and pedir_paleta on their own: every palette file of
\* ArchivosPaletas, every text of at most MaxLen characters
AlfabetoPaleta == {"0", "1", "2", "3", "4", "5", "-", "+", " ", "x"}

Textos(alfabeto, n) == UNION {[1..m -> alfabeto] : m \in 0..n}

InitPaleta ==
    /\ archivo = [k \in Claves |-> "ausente"]
    /\ archivoPaletas \in ArchivosPaletas
    /\ imagen = "ninguna"
    /\ archivoCapas = SinArchivo
    /\ archivosZonas = SinArchivosZonas
    /\ conversion = SinConversion
    /\ SinCarga
    /\ corridas = 0
    /\ llamadas = 0
    /\ descargas = [k \in Claves |-> 0]
    /\ removido = [k \in Claves |-> FALSE]
    /\ script = "ninguno"
    /\ pc = "cargar_paletas"
    /\ pasos = <<>>
    /\ seleccion = <<>>
    /\ pendientes = <<>>
    /\ rutas = {}
    /\ fallidas = {}
    /\ ultimo = SinLlamada
    /\ paletas = <<>>
    /\ entradaPaleta = <<>>
    /\ paleta = SinPaleta
    /\ entradasCoord = <<>>
    /\ coords = SinCoords
    /\ coords2 = SinCoords
    /\ datos = {}
    /\ vacias = {}
    /\ capas = <<>>
    /\ subtitulo = <<>>
    /\ escrituras = 0
    /\ error = "ninguno"
    /\ SinZonas

PedirPaletaTexto == PedirPaletaCon(Textos(AlfabetoPaleta, MaxLen))

NextPaleta == CargarPaletas \/ PedirPaletaTexto

SpecPaleta == InitPaleta /\ [][NextPaleta]_vars

\* ----------------------------------------------------- pedir_coordenadas
\* pedir_coordenadas on its own: every combination of these texts at the four
\* prompts, and then the same bounds entered again with one axis swapped
EntradasCoord ==
    {<<>>, <<" ">>, <<"2", "2">>, <<"4", "0">>, <<"-", "5">>, <<"x">>,
     <<"n", "a", "n">>}

Cuadruplas == [1..4 -> EntradasCoord]

InitCoord ==
    /\ archivo = [k \in Claves |-> "ausente"]
    /\ archivoPaletas = DocPaletas(FALSE, FALSE, FALSE, FALSE, FALSE, <<>>)
    /\ imagen = "ninguna"
    /\ archivoCapas = SinArchivo
    /\ archivosZonas = SinArchivosZonas
    /\ conversion = SinConversion
    /\ SinCarga
    /\ corridas = 0
    /\ llamadas = 0
    /\ descargas = [k \in Claves |-> 0]
    /\ removido = [k \in Claves |-> FALSE]
    /\ script = "ninguno"
    /\ pc = "pedir_coordenadas"
    /\ pasos = <<>>
    /\ seleccion = <<>>
    /\ pendientes = <<>>
    /\ rutas = {}
    /\ fallidas = {}
    /\ ultimo = SinLlamada
    /\ paletas = <<>>
    /\ entradaPaleta = <<>>
    /\ paleta = SinPaleta
    /\ entradasCoord = <<>>
    /\ coords = SinCoords
    /\ coords2 = SinCoords
    /\ datos = {}
    /\ vacias = {}
    /\ capas = <<>>
    /\ subtitulo = <<>>
    /\ escrituras = 0
    /\ error = "ninguno"
    /\ SinZonas

PedirCoordenadasTodas == PedirCoordenadasCon(Cuadruplas)

\* The prompts answered again with the two latitudes in the other order
ReingresarLat ==
    LET e == entradasCoord
        r == pedir_coordenadas(<<e[2], e[1], e[3], e[4]>>)
    IN  /\ script = "ninguno"
        /\ pc = "fin"
        /\ coords2' = r
        /\ pc' = "lat_invertida"
        /\ UNCHANGED <<varsCarga, varsZonas, varsDisco, varsHistoria, script, pasos, varsDescarga,
                       varsPaleta, entradasCoord, coords, varsMapa, error>>

\* The prompts answered again with the two longitudes in the other order
ReingresarLon ==
    LET e == entradasCoord
        r == pedir_coordenadas(<<e[1], e[2], e[4], e[3]>>)
    IN  /\ script = "ninguno"
        /\ pc = "fin"
        /\ coords2' = r
        /\ pc' = "lon_invertida"
        /\ UNCHANGED <<varsCarga, varsZonas, varsDisco, varsHistoria, script, pasos, varsDescarga,
                       varsPaleta, entradasCoord, coords, varsMapa, error>>

NextCoord == PedirCoordenadasTodas \/ ReingresarLat \/ ReingresarLon

SpecCoord == InitCoord /\ [][NextCoord]_vars

\* ------------------------------------------------ the zones, on their own
\* cargar_zonas and then mapa.generar_mapa on zone files of at most MaxZonas
\* entries, for a few areas of the map
ZonasPosibles ==
    {Zona(1, <<"Uno">>, <<25>>, <<-113>>, <<<<"r", "o", "j", "o">>>>),
     Zona(2, <<"Dos">>, <<22>>, <<-120>>, <<<<" ", "R", "O", "J", "O", " ">>>>),
     Zona(3, <<"Dos">>, <<>>, <<>>, <<>>),
     Zona(4, <<>>, <<33>>, <<-108>>, <<<<"#", "0", "0", "0", "0", "0">>>>),
     Zona(5, <<"Uno">>, <<90>>, <<-113>>, <<<<"#", "E", "6", "3", "9", "4", "6">>>>),
     Zona(6, <<>>, <<95>>, <<-110>>, <<<<"x", "y", "z">>>>)}

ListasZonas ==
    UNION {[1..n -> ZonasPosibles \cup {NoZona}] : n \in 0..MaxZonas}

ArchivosA ==
    {ArchivoDeZonas("objeto", "lista", l, n) :
        l \in ListasZonas, n \in {<<>>, <<"Capa A">>}}
    \cup {ArchivoDeZonas("ausente", "falta", <<>>, <<>>),
          ArchivoDeZonas("ilegible", "falta", <<>>, <<>>),
          ArchivoDeZonas("no_objeto", "falta", <<>>, <<>>),
          ArchivoDeZonas("objeto", "falta", <<>>, <<"Capa A">>),
          ArchivoDeZonas("objeto", "nulo", <<>>, <<"Capa A">>)}

ArchivosB ==
    {ArchivoDeZonas("ausente", "falta", <<>>, <<>>),
     ArchivoDeZonas("objeto", "lista",
                    <<Zona(8, <<"Uno">>, <<25>>, <<-113>>, <<<<"r", "o", "j", "o">>>>)>>,
                    <<"Capa B">>),
     ArchivoDeZonas("objeto", "lista",
                    <<Zona(9, <<>>, <<30>>, <<-115>>, <<<<"a", "z", "u", "l">>>>), NoZona>>,
                    <<"Capa B">>)}

DiscosZonas ==
    {[n \in {"a.json", "b.json"} |-> IF n = "a.json" THEN a ELSE b] :
        a \in ArchivosA, b \in ArchivosB}

ListasCapas ==
    {<<>>,
     <<Capa(<<"a.json">>)>>,
     <<Capa(<<"a.json">>), Capa(<<"b.json">>)>>,
     <<Capa(<<"b.json">>), Capa(<<"a.json">>)>>,
     <<Capa(<<>>), Capa(<<"a.json">>)>>,
     <<Capa(<<"c.json">>), Capa(<<"b.json">>)>>,
     <<Capa(<<"a.json">>), Capa(<<"a.json">>)>>}

Area(lat_min, lat_max, lon_min, lon_max) ==
    [raised |-> FALSE, lat_min |-> Num(lat_min), lat_max |-> Num(lat_max),
     lon_min |-> Num(lon_min), lon_max |-> Num(lon_max)]

Areas ==
    {Area(LAT_MIN_DEFAULT, LAT_MAX_DEFAULT, LON_MIN_DEFAULT, LON_MAX_DEFAULT),
     Area(-10, 10, -10, 10),
     Area(80, 100, -120, -108),
     [Area(22, 33, -120, -108) EXCEPT !.lat_max = NaN]}

InitZonas ==
    /\ archivo = [k \in Claves |-> "ausente"]
    /\ archivoPaletas = DocPaletas(FALSE, FALSE, FALSE, FALSE, FALSE, <<>>)
    /\ imagen = "ninguna"
    /\ archivoCapas = SinArchivo
    /\ archivosZonas \in DiscosZonas
    /\ conversion = SinConversion
    /\ SinCarga
    /\ corridas = 0
    /\ llamadas = 0
    /\ descargas = [k \in Claves |-> 0]
    /\ removido = [k \in Claves |-> FALSE]
    /\ script = "ninguno"
    /\ pc = "cargar_zonas"
    /\ pasos = <<>>
    /\ seleccion = <<>>
    /\ pendientes = <<>>
    /\ rutas = {}
    /\ fallidas = {}
    /\ ultimo = SinLlamada
    /\ paletas = <<>>
    /\ entradaPaleta = <<>>
    /\ paleta = SinPaleta
    /\ entradasCoord = <<>>
    /\ coords \in Areas
    /\ coords2 = SinCoords
    /\ datos = {}
    /\ vacias = {}
    /\ capas = <<>>
    /\ subtitulo = <<>>
    /\ escrituras = 0
    /\ error = "ninguno"
    /\ capasActivas \in ListasCapas
    /\ zonas = <<>>
    /\ visibles = <<>>
    /\ marcadores = <<>>
    /\ filas = <<>>

\* zonas = cargar_zonas(capas_activas) if capas_activas else []
CargarZonas ==
    /\ script = "ninguno"
    /\ pc = "cargar_zonas"
    /\ zonas' = IF capasActivas # <<>>
                THEN cargar_zonas(archivosZonas, capasActivas) ELSE <<>>
    /\ pasos' = Append(pasos, "cargar_zonas")
    /\ pc' = "generar_mapa"
    /\ UNCHANGED <<varsCarga, archivoCapas, archivosZonas, capasActivas, visibles, marcadores, filas,
                   conversion,
                   varsDisco, varsHistoria, script, varsDescarga, varsPaleta,
                   varsCoord, varsMapa, error>>

\* generar_mapa(baja, lat_min, lat_max, lon_min, lon_max, paleta, zonas)
GenerarMapaZonas ==
    \E r \in {generar_mapa_mapa(coords, zonas)} :
        /\ script = "ninguno"
        /\ pc = "generar_mapa"
        /\ capas' = r.capas
        /\ visibles' = r.visibles
        /\ marcadores' = r.marcadores
        /\ filas' = r.filas
        /\ subtitulo' = r.subtitulo
        /\ escrituras' = IF r.guardado THEN escrituras + 1 ELSE escrituras
        /\ guardados' = IF r.guardado
                        THEN Append(guardados, [output_file |-> output_file("mapa"),
                                                dpi |-> dpi("mapa")])
                        ELSE guardados
        /\ imagen' = IF r.guardado /\ output_file("mapa") = IMAGEN
                     THEN "mapa" ELSE imagen
        /\ informe' = IF r.guardado THEN zonas_dibujadas(zonas) ELSE informe
        /\ pasos' = Append(pasos, "generar_mapa")
        /\ pc' = IF r.guardado THEN "fin" ELSE "abortado"
        /\ error' = r.error
        /\ UNCHANGED <<tablas, cargados, rotulos, entradaDatasets, entradaZonas,
                       archivoCapas, archivosZonas, capasActivas, zonas,
                       conversion, archivo, archivoPaletas, varsHistoria, script,
                       varsDescarga, varsPaleta, varsCoord, datos, vacias>>

NextZonas == CargarZonas \/ GenerarMapaZonas

SpecZonas == InitZonas /\ [][NextZonas]_vars

\* ------------------------------------------------- the color of one zone
\* mapa.generar_mapa on one loaded zone at (25, -113) whose color is any of
\* these texts, in the default area
MuestraHex == {"0", "4", "c", "f"}

\* "#" and six digits
ColoresHex == {<<"#">> \o d : d \in [1..6 -> MuestraHex]}

AlfabetoColor == {"#", "0", "f", "g", "-", " "}

\* str.upper() of a table name
upper(texto) ==
    [i \in 1..Len(texto) |->
        IF \E k \in 1..26 : Minusculas[k] = texto[i]
        THEN Mayusculas[CHOOSE k \in 1..26 : Minusculas[k] = texto[i]]
        ELSE texto[i]]

NombresDeColor ==
    UNION {{c.nombre, upper(c.nombre), <<" ">> \o c.nombre \o <<" ", " ">>,
            <<"#">> \o upper(Tail(c.hex))} : c \in Elementos(COLORES_ESPANOL)}

ColoresSueltos ==
    {<<"#", "0", "0", "0", "0", "0">>,
     <<"#", "a", "b", "c", "d", "e">>,
     <<"#", "a", "b", "c">>,
     <<"0", "0", "0", "0", "f", "f">>,
     <<"#", "0", "0", "0", "0", "0", "0", "0">>,
     <<"#", "#", "0", "0", "0", "0", "0", "0">>,
     <<"#", "F", "F", "F", "F", "F", "F">>,
     <<"#", "0", "_", "0", "0", "0", "0">>,
     <<"#", "+", "0", "+", "0", "+", "0">>,
     <<"x", "y", "z">>,
     <<"d", "e", "c", "a", "d", "e">>,
     <<"#", "0", "0", "C", "C", "4", "4">>,
     <<"#", "0", "1", "a", "d", "e", "1">>,
     <<"#", "7", "f", "7", "f", "7", "f">>,
     <<"#", "8", "0", "8", "0", "8", "0">>,
     <<"#", "1", "6", "c", "e", "0", "0">>}

ColoresDeZona ==
    ColoresHex \cup Textos(AlfabetoColor, MaxColor) \cup NombresDeColor
    \cup ColoresSueltos

ZonaDeColor(color) ==
    etiquetar(Zona(1, <<"Uno">>, <<25>>, <<-113>>, color), "a.json", "Capa A")

InitColor ==
    /\ archivo = [k \in Claves |-> "ausente"]
    /\ archivoPaletas = DocPaletas(FALSE, FALSE, FALSE, FALSE, FALSE, <<>>)
    /\ imagen = "ninguna"
    /\ archivoCapas = SinArchivo
    /\ archivosZonas = SinArchivosZonas
    /\ conversion = SinConversion
    /\ SinCarga
    /\ corridas = 0
    /\ llamadas = 0
    /\ descargas = [k \in Claves |-> 0]
    /\ removido = [k \in Claves |-> FALSE]
    /\ script = "ninguno"
    /\ pc = "generar_mapa"
    /\ pasos = <<>>
    /\ seleccion = <<>>
    /\ pendientes = <<>>
    /\ rutas = {}
    /\ fallidas = {}
    /\ ultimo = SinLlamada
    /\ paletas = <<>>
    /\ entradaPaleta = <<>>
    /\ paleta = SinPaleta
    /\ entradasCoord = <<>>
    /\ coords = Area(LAT_MIN_DEFAULT, LAT_MAX_DEFAULT, LON_MIN_DEFAULT,
                     LON_MAX_DEFAULT)
    /\ coords2 = SinCoords
    /\ datos = {}
    /\ vacias = {}
    /\ capas = <<>>
    /\ subtitulo = <<>>
    /\ escrituras = 0
    /\ error = "ninguno"
    /\ capasActivas = <<Capa(<<"a.json">>)>>
    /\ zonas \in {<<ZonaDeColor(<<c>>)>> : c \in ColoresDeZona}
                 \cup {<<ZonaDeColor(<<>>)>>}
    /\ visibles = <<>>
    /\ marcadores = <<>>
    /\ filas = <<>>

SpecColor == InitColor /\ [][GenerarMapaZonas]_vars

\* ===================================================================
\* The claims
\* ===================================================================

\* Exceptions that end a run for a reason other than a download: a text that
\* float() refuses or a NaN bound, equal longitudes, an archive on disk that
\* is not a whole zip
CausasAjenas == {"ValueError", "ZeroDivisionError", "DriverError"}

CorridaTerminada == pc \in {"fin", "abortado"}

\* C1: in dibuja.py, when the download of a selected dataset fails, only that
\* dataset is dropped: the others are fetched and loaded, and the run reaches
\* generar_mapa, draws the layers it has and saves the image; for every
\* selected dataset, "estados" included.  (Stated for the runs that nothing
\* else than the download stops.)
C1_FalloOmiteSoloEseDataset ==
    (script = "dibuja" /\ CorridaTerminada /\ fallidas # {}
        /\ error \notin CausasAjenas)
    => /\ pc = "fin"
       /\ rutas = Elementos(seleccion) \ fallidas
       /\ datos = rutas
       /\ Contiene(pasos, "generar_mapa")
       /\ escrituras = 1
       /\ imagen = "dibuja"

\* C2: in mapa.py and mapa_baja_california.py a download failure in
\* descargar_datos aborts the run: the exception leaves descargar_datos, no
\* later step runs (palette, zones, coordinates, load, generar_mapa) and no
\* image is written.
C2_FalloAbortaCorrida ==
    (script \in {"mapa", "mapa_bc"} /\ "estados" \in fallidas)
    => /\ pc = "abortado"
       /\ error = "URLError"
       /\ ultimo.ret = "raise"
       /\ pasos = <<"descargar_datos">>
       /\ paletas = <<>> /\ paleta = SinPaleta
       /\ coords = SinCoords
       /\ datos = {} /\ capas = <<>>
       /\ escrituras = 0

C2_Testigo ==
    /\ script = "mapa_bc"
    /\ "estados" \in fallidas
    /\ ultimo.red = "falla_parcial"
    /\ pc = "abortado"

HuboLlamada == ultimo.fn # "ninguna"

\* C3: when the archive of a dataset is already on disk, the fetcher returns
\* its path at once: no download is attempted, the file is neither created,
\* replaced nor deleted, and it is not checked (a file that is no whole zip
\* is returned like any other).
C3_CacheSinDescarga ==
    (HuboLlamada /\ ultimo.antes # "ausente")
    => /\ ultimo.ret = "ruta"
       /\ ultimo.intentos = 0
       /\ archivo[ultimo.clave] = ultimo.antes
       /\ descargas[ultimo.clave] = ultimo.previas

C3_Testigo ==
    /\ HuboLlamada
    /\ ultimo.antes = "parcial"
    /\ ultimo.red = "ok"
    /\ ultimo.ret = "ruta"
    /\ archivo[ultimo.clave] = "parcial"

\* C4: when a download fails in the fetcher, no file, partial or whole, is
\* left at the path of the dataset, and the caller is told: None from
\* descargar_dataset, the exception raised again from descargar_datos; a path
\* is returned only when the file is there.
C4_FalloNoDejaArchivo ==
    /\ (HuboLlamada /\ ultimo.antes = "ausente" /\ ultimo.red # "ok")
       => /\ archivo[ultimo.clave] = "ausente"
          /\ ultimo.fn = "descargar_dataset" => ultimo.ret = "None"
          /\ ultimo.fn = "descargar_datos" => ultimo.ret = "raise"
    /\ (HuboLlamada /\ ultimo.ret = "ruta") => archivo[ultimo.clave] # "ausente"

C4_Testigo ==
    /\ ultimo.fn = "descargar_dataset"
    /\ ultimo.antes = "ausente"
    /\ ultimo.red = "falla_parcial"
    /\ ultimo.ret = "None"
    /\ archivo[ultimo.clave] = "ausente"

\* C5: over a sequence of calls of the fetcher for one dataset during which
\* the archive is not removed from outside, at most one download succeeds;
\* every call attempts at most one download (no retry); and once a download
\* has succeeded every later call returns the cached path without a request.
C5_UnaSolaDescarga ==
    /\ \A k \in Claves : ~removido[k] => descargas[k] <= 1
    /\ ultimo.intentos <= 1
    /\ (HuboLlamada /\ ultimo.previas >= 1 /\ ~removido[ultimo.clave])
       => (ultimo.intentos = 0 /\ ultimo.ret = "ruta")

C5_Testigo ==
    /\ HuboLlamada
    /\ ultimo.previas = 1
    /\ descargas[ultimo.clave] = 1
    /\ ~removido[ultimo.clave]
    /\ ultimo.red = "falla"
    /\ ultimo.intentos = 0
    /\ ultimo.ret = "ruta"

CoordenadasPedidas == Contiene(pasos, "pedir_coordenadas")

\* C6: for every combination of the four values entered, the bounds that
\* pedir_coordenadas returns satisfy lat_min < lat_max and lon_min < lon_max,
\* strictly.
C6_LimitesEstrictos ==
    (CoordenadasPedidas /\ ~coords.raised)
    => /\ Menor(coords.lat_min, coords.lat_max)
       /\ Menor(coords.lon_min, coords.lon_max)

\* A text that is not blank and that float() refuses
NoEsNumero(t) == strip(t) # <<>> /\ ~float(t).ok

\* C7: at each of the four prompts of pedir_coordenadas a text that is no
\* valid number yields the default of that prompt (22, 33, -120, -108) and the
\* run goes on without an error.
C7_InvalidoDaDefecto ==
    CoordenadasPedidas
    => /\ (\E i \in 1..4 : NoEsNumero(entradasCoord[i]))
          => (~coords.raised /\ error = "ninguno" /\ pc # "abortado")
       /\ NoEsNumero(entradasCoord[1]) => Num(22) \in {coords.lat_min, coords.lat_max}
       /\ NoEsNumero(entradasCoord[2]) => Num(33) \in {coords.lat_min, coords.lat_max}
       /\ NoEsNumero(entradasCoord[3]) => Num(-120) \in {coords.lon_min, coords.lon_max}
       /\ NoEsNumero(entradasCoord[4]) => Num(-108) \in {coords.lon_min, coords.lon_max}

\* A text that float() reads as a number (not blank, not NaN)
EsNumero(t) == strip(t) # <<>> /\ float(t).ok /\ ~float(t).x.nan

\* C8: for any two numbers a and b, entering (a, b) and entering (b, a) as
\* (lat_min, lat_max) give the same latitude bounds; the same holds for the
\* longitudes; and swapping one axis never changes the other axis.
C8_OrdenIndiferente ==
    /\ (pc = "lat_invertida" /\ EsNumero(entradasCoord[1])
            /\ EsNumero(entradasCoord[2]))
       => /\ coords2.lat_min = coords.lat_min
          /\ coords2.lat_max = coords.lat_max
    /\ pc = "lat_invertida"
       => /\ coords2.lon_min = coords.lon_min
          /\ coords2.lon_max = coords.lon_max
    /\ (pc = "lon_invertida" /\ EsNumero(entradasCoord[3])
            /\ EsNumero(entradasCoord[4]))
       => /\ coords2.lon_min = coords.lon_min
          /\ coords2.lon_max = coords.lon_max
    /\ pc = "lon_invertida"
       => /\ coords2.lat_min = coords.lat_min
          /\ coords2.lat_max = coords.lat_max

C8_Testigo ==
    /\ pc = "lat_invertida"
    /\ entradasCoord[1] = <<"4", "0">>
    /\ entradasCoord[2] = <<"2", "2">>
    /\ coords.lat_min = Num(22) /\ coords.lat_max = Num(40)
    /\ coords2.lat_min = Num(22) /\ coords2.lat_max = Num(40)

\* The built-in palette, field by field
PaletaClasica ==
    [nombre |-> "Clásico (fondo blanco)",
     fondo_figura |-> "#ffffff", fondo_mapa |-> "#ffffff",
     relleno_tierra |-> "#f5e6ca", contorno |-> "#1a3c6e",
     division_estados |-> "#cc3333", texto_etiquetas |-> "#1a1a1a",
     texto_stroke |-> "#ffffff", titulo |-> "#1a3c6e",
     subtitulo |-> "#666666", ejes_texto |-> "#333333",
     ejes_ticks |-> "#444444", ejes_bordes |-> "#cccccc",
     cuadricula |-> "#cccccc", cuadricula_alpha |-> <<3, 10>>,
     texto_info |-> "#777777", indicador_norte |-> "#1a3c6e"]

PaletasCargadas == Contiene(pasos, "cargar_paletas")

\* The palette file has a non-empty list under "paletas"
TieneLista(doc) ==
    doc.existe /\ doc.legible /\ doc.objeto /\ doc.tiene /\ ~doc.nulo
        /\ doc.lista # <<>>

\* The palette file is missing, cannot be parsed, has no "paletas" entry or
\* has an empty list there
SinLista(doc) ==
    \/ ~doc.existe
    \/ ~doc.legible
    \/ doc.objeto /\ ~doc.tiene
    \/ doc.objeto /\ doc.tiene /\ ~doc.nulo /\ doc.lista = <<>>

\* C9: cargar_paletas never raises; when the palette file is missing, cannot
\* be parsed, has no "paletas" entry or has an empty list, it returns exactly
\* one palette, the built-in one with its fixed field values; otherwise it
\* returns the list of the file unchanged.
C9_PaletasPorDefecto ==
    PaletasCargadas
    => /\ error # "Exception"
       /\ SinLista(archivoPaletas) => paletas = <<PaletaClasica>>
       /\ TieneLista(archivoPaletas) => paletas = archivoPaletas.lista

C9_Testigo ==
    /\ PaletasCargadas
    /\ archivoPaletas.existe /\ archivoPaletas.legible /\ archivoPaletas.objeto
    /\ archivoPaletas.tiene /\ ~archivoPaletas.nulo
    /\ archivoPaletas.lista = <<>>
    /\ paletas = <<PaletaClasica>>

PaletaPedida == Contiene(pasos, "pedir_paleta")

\* C10: for a non-empty palette list and any text, pedir_paleta returns an
\* element of the list without raising; a blank or non-numeric text gives the
\* first palette, and a number k with 1 <= k <= N gives the k-th palette.
C10_PaletaElegida ==
    (PaletaPedida /\ paletas # <<>>)
    => /\ error = "ninguno"
       /\ paleta \in Elementos(paletas)
       /\ (strip(entradaPaleta) = <<>> \/ ~int(entradaPaleta).ok)
          => paleta = paletas[1]
       /\ \A k \in 1..Len(paletas) :
              (int(entradaPaleta).ok /\ int(entradaPaleta).v = k)
              => paleta = paletas[k]

C10_Testigo ==
    /\ PaletaPedida
    /\ Len(paletas) = 3
    /\ entradaPaleta = <<" ", "3">>
    /\ paleta = PaletaOscura
    /\ paleta # paletas[1]

NumeroFuera ==
    /\ PaletaPedida /\ paletas # <<>>
    /\ int(entradaPaleta).ok
    /\ int(entradaPaleta).v \notin 1..Len(paletas)

\* C11: a numeric choice outside 1..N is clamped by pedir_paleta: a number
\* below 1 selects the first palette and a number above N selects the last
\* (N-th) palette.
C11_FueraAcotado ==
    NumeroFuera
    => /\ int(entradaPaleta).v < 1 => paleta = paletas[1]
       /\ int(entradaPaleta).v > Len(paletas) => paleta = paletas[Len(paletas)]

\* C11 (amended): a numeric choice outside 1..N, below 1 or above N alike,
\* selects the first palette, and pedir_paleta does not raise.
C11_FueraDaPrimera ==
    NumeroFuera => (error = "ninguno" /\ paleta = paletas[1])

C11_Testigo ==
    /\ NumeroFuera
    /\ Len(paletas) = 3
    /\ int(entradaPaleta).v = 5
    /\ paleta = paletas[1]
    /\ paleta # paletas[3]

ZonasCargadas == Contiene(pasos, "cargar_zonas")

\* The file behind the k-th active layer, its name, and whether it reads as
\* a JSON object whose "zonas" is a list of objects (or is absent)
NombreDeCapa(k) == get(capasActivas[k].archivo, "")

ArchivoDeCapa(k) ==
    IF NombreDeCapa(k) \in DOMAIN archivosZonas
    THEN archivosZonas[NombreDeCapa(k)] ELSE SinArchivo

Sano(f) ==
    /\ f.estado = "objeto"
    /\ f.clase # "nulo"
    /\ \A i \in 1..Len(f.items) : f.items[i].dict

Aporte(k) == IF Sano(ArchivoDeCapa(k)) THEN ArchivoDeCapa(k).items ELSE <<>>

RECURSIVE Desde(_)
Desde(k) == IF k = 1 THEN 0 ELSE Desde(k - 1) + Len(Aporte(k - 1))

DeOrigen(n) == {i \in 1..Len(zonas) : zonas[i]._archivo_origen = n}

Veces(n) == Cardinality({k \in 1..Len(capasActivas) : NombreDeCapa(k) = n})

\* C12: in cargar_zonas a zone file that is missing, unreadable or malformed
\* contributes no zones and does not abort the load: the result holds all
\* the zones of every readable file, once per time the file is listed, none
\* from a failing file, and no exception propagates.
C12_ArchivoMaloSeOmite ==
    ZonasCargadas
    => /\ pc = "generar_mapa" => error = "ninguno"
       /\ \A k \in 1..Len(capasActivas) :
              Cardinality(DeOrigen(NombreDeCapa(k)))
              = Veces(NombreDeCapa(k)) * Len(Aporte(k))
       /\ \A i \in 1..Len(zonas) :
              \E k \in 1..Len(capasActivas) :
                  /\ zonas[i]._archivo_origen = NombreDeCapa(k)
                  /\ Sano(ArchivoDeCapa(k))

C12_Testigo ==
    /\ ZonasCargadas
    /\ Len(capasActivas) = 2
    /\ NombreDeCapa(1) = "c.json"
    /\ ArchivoDeCapa(1).estado = "ausente"
    /\ NombreDeCapa(2) = "b.json"
    /\ Sano(ArchivoDeCapa(2))
    /\ Len(zonas) = 1
    /\ zonas[1]._archivo_origen = "b.json"

\* C13: cargar_zonas returns the zone lists of the active files one after
\* another, in the order of the active-layer list and in file order within a
\* file; every zone carries _archivo_origen, the name of its file, and
\* _nombre_capa, the "nombre" of that file or the file name without one.
C13_ConcatenadasYEtiquetadas ==
    ZonasCargadas
    => /\ Len(zonas) = Desde(Len(capasActivas) + 1)
       /\ \A k \in 1..Len(capasActivas) : \A i \in 1..Len(Aporte(k)) :
              LET z == zonas[Desde(k) + i]
                  o == Aporte(k)[i]
              IN  /\ z.id = o.id /\ z.nombre = o.nombre /\ z.color = o.color
                  /\ z.latitud = o.latitud /\ z.longitud = o.longitud
                  /\ z._archivo_origen = NombreDeCapa(k)
                  /\ z._nombre_capa
                     = get(ArchivoDeCapa(k).nombre, NombreDeCapa(k))

C13_Testigo ==
    /\ ZonasCargadas
    /\ Len(capasActivas) = 2
    /\ NombreDeCapa(1) = "b.json" /\ NombreDeCapa(2) = "a.json"
    /\ Len(Aporte(1)) = 1 /\ Len(Aporte(2)) = 2
    /\ ArchivoDeCapa(2).nombre = <<>>
    /\ zonas[1]._nombre_capa = "Capa B"
    /\ zonas[3]._nombre_capa = "a.json"
    /\ zonas[2].id # zonas[3].id


MapaGenerado == Contiene(pasos, "generar_mapa")

\* Where a loaded zone lies; z.get("latitud", 0) reads a zone without the
\* key at 0
LatitudDe(z) == IF z.latitud = <<>> THEN 0 ELSE z.latitud[1]

LongitudDe(z) == IF z.longitud = <<>> THEN 0 ELSE z.longitud[1]

EnElArea(z) ==
    /\ ~EsNaN(coords)
    /\ coords.lat_min.v <= LatitudDe(z) /\ LatitudDe(z) <= coords.lat_max.v
    /\ coords.lon_min.v <= LongitudDe(z) /\ LongitudDe(z) <= coords.lon_max.v

\* C14: loading never filters by position; the visible set is formed at draw
\* time and is exactly the loaded zones with lat_min <= latitud <= lat_max
\* and lon_min <= longitud <= lon_max, bounds included, in load order; the
\* markers and the legend rows are those of the visible zones, so no zone
\* outside the bounds gets either.
C14_VisiblesEnElArea ==
    /\ ZonasCargadas => Len(zonas) = Desde(Len(capasActivas) + 1)
    /\ ~MapaGenerado => (visibles = <<>> /\ marcadores = <<>> /\ filas = <<>>)
    /\ MapaGenerado
       => /\ visibles = SelectSeq(zonas, EnElArea)
          /\ Len(marcadores) = Len(visibles)
          /\ Len(filas) = Len(visibles)
          /\ \A i \in 1..Len(visibles) :
                 /\ marcadores[i].id = visibles[i].id
                 /\ marcadores[i].lat = LatitudDe(visibles[i])
                 /\ marcadores[i].lon = LongitudDe(visibles[i])
                 /\ filas[i].id = visibles[i].id

C14_Testigo ==
    /\ MapaGenerado
    /\ coords.lat_min = Num(22) /\ coords.lon_min = Num(-120)
    /\ Len(zonas) = 2
    /\ zonas[1].latitud = <<90>>
    /\ zonas[2].latitud = <<22>> /\ zonas[2].longitud = <<-120>>
    /\ Len(visibles) = 1
    /\ marcadores[1].id = zonas[2].id
    /\ filas[1].id = zonas[2].id

\* The color text of the zone of SpecColor, as its file gives it
ColorDado == zonas[1].color[1]

ZonaConColor ==
    /\ MapaGenerado
    /\ Len(zonas) = 1
    /\ zonas[1].color # <<>>
    /\ zonas[1].latitud = <<25>> /\ zonas[1].longitud = <<-113>>
    /\ coords = Area(22, 33, -120, -108)

\* "#" followed by hexadecimal digits only
EsLiteralHex(t) ==
    /\ Len(t) > 1
    /\ t[1] = "#"
    /\ \A i \in 2..Len(t) : EsHex(t[i])

\* C15: a zone inside the bounds whose color is one of the 16 Spanish names
\* of the table, in any letter case and with blanks around it, is visible and
\* is filled with the table's hex value for that name; with bounds
\* (22, 33, -120, -108) a zone at (25, -113) colored "rojo" is visible with
\* "#e63946".  A literal hex string resolves to itself, lower-cased.
C15_ColorDeTabla ==
    ZonaConColor
    => /\ visibles = zonas
       /\ Len(marcadores) = 1
       /\ \A k \in 1..Len(COLORES_ESPANOL) :
              strip(lower(ColorDado)) = COLORES_ESPANOL[k].nombre
              => marcadores[1].facecolor = COLORES_ESPANOL[k].hex
       /\ ColorDado = <<"r", "o", "j", "o">> => marcadores[1].facecolor = <<"#", "e", "6", "3", "9", "4", "6">>
       /\ EsLiteralHex(ColorDado) => marcadores[1].facecolor = lower(ColorDado)

C15_Testigo ==
    /\ ZonaConColor
    /\ ColorDado = <<"r", "o", "j", "o">>
    /\ Len(visibles) = 1
    /\ marcadores[1].facecolor = <<"#", "e", "6", "3", "9", "4", "6">>

\* The three channels of a color "#rrggbb"
BienFormado(t) == Len(t) = 7 /\ EsLiteralHex(t)

Canal(t, i) == ValorHexes(SubSeq(t, 2 * i, 2 * i + 1))

Luma(t) == 299 * Canal(t, 1) + 587 * Canal(t, 2) + 114 * Canal(t, 3)

\* C16: for every 6-hex-digit color with channels R, G, B,
\* _color_texto_contraste gives "white" exactly when
\* 299*R + 587*G + 114*B < 127500 (luminance below 0.5) and "black"
\* otherwise, a luminance of exactly 0.5 included.
C16_ContrastePorLuminancia ==
    (ZonaConColor /\ BienFormado(marcadores[1].facecolor))
    => (marcadores[1].texto_color = "white"
        <=> Luma(marcadores[1].facecolor) < 127500)

\* C17: for a zone whose color does not resolve to a well-formed 6-digit hex
\* string the label text is "black", and drawing the zones does not fail
\* because of the color.
C17_MalFormadoDaNegro ==
    (ZonaConColor /\ ~BienFormado(marcadores[1].facecolor))
    => (marcadores[1].texto_color = "black" /\ error = "ninguno")

\* The layers of the three scripts, back to front
OrdenDeCapas ==
    <<"paises", "relleno", "contorno", "division", "etiquetas", "carreteras",
      "ciudades", "zonas">>

Lugar(capa) == CHOOSE i \in 1..Len(OrdenDeCapas) : OrdenDeCapas[i] = capa

EnOrden(cs) ==
    \A i, j \in 1..Len(cs) : i < j => Lugar(cs[i]) < Lugar(cs[j])

\* The layers the run has something to draw for
CapasDebidas ==
    Elementos(CapasEstados)
    \cup (IF script = "dibuja"
          THEN (datos \cap {"paises"})
               \cup ((datos \ vacias) \cap {"carreteras", "ciudades"})
          ELSE {})
    \cup (IF script = "mapa" /\ visibles # <<>> THEN {"zonas"} ELSE {})

\* C18: in every run of generar_mapa the layers drawn follow the one order
\* countries, fill, outline, division, labels, roads, cities, zones, a layer
\* with nothing to draw being left out without moving the others; once the
\* function is past the layers (the limits are set, refused or not) every
\* layer due is drawn, and the image is written only by a run that drew them.
C18_CapasEnOrden ==
    Contiene(pasos, "generar_mapa")
    => /\ EnOrden(capas)
       /\ error \in {"ninguno", "ValueError"} => Elementos(capas) = CapasDebidas
       /\ escrituras > 0 => (error = "ninguno" /\ Elementos(capas) = CapasDebidas)

C18_Testigo ==
    /\ script = "dibuja"
    /\ Contiene(pasos, "generar_mapa")
    /\ escrituras = 1
    /\ capas = <<"paises", "relleno", "contorno", "division", "etiquetas",
                 "carreteras">>

\* 0.008 times a latitude span of 11 or 20 degrees, as binary64 values
\* (0.088 = 6341068275337658 * 2^-56, 0.16 = 5764607523034235 * 2^-55)
RadioEsperado ==
    IF coords.lat_max.v - coords.lat_min.v = 11
    THEN [neg |-> FALSE, m |-> <<2490, 4194, 2752, 3342, 1>>, e |-> -56]
    ELSE [neg |-> FALSE, m |-> <<5243, 7536, 6225, 2293, 1>>, e |-> -55]

\* math.cos(math.radians(lat)) > 0 on whole degrees up to 180: the float
\* cosine of 90 degrees is 6.1e-17, above zero
CosenoPositivo(lat) == -90 <= lat /\ lat <= 90

MuestraMetros == {-100, 0, 1, 50, 100, 1000, 111320}

MuestraLatitudes ==
    {-180, -91, -90, -89, -60, -1, 0, 1, 60, 89, 90, 91, 180}

InitMetros ==
    /\ archivo = [k \in Claves |-> "ausente"]
    /\ archivoPaletas = DocPaletas(FALSE, FALSE, FALSE, FALSE, FALSE, <<>>)
    /\ imagen = "ninguna"
    /\ archivoCapas = SinArchivo
    /\ archivosZonas = SinArchivosZonas
    /\ corridas = 0
    /\ llamadas = 0
    /\ descargas = [k \in Claves |-> 0]
    /\ removido = [k \in Claves |-> FALSE]
    /\ CorridaVacia
    /\ SinCarga
    /\ \E metros \in MuestraMetros, latitud \in MuestraLatitudes :
           conversion = [SinConversion EXCEPT !.metros = metros,
                                              !.latitud = latitud]

\* grados_lat, grados_lon = metros_a_grados(metros, latitud)
LlamarMetrosAGrados ==
    \E r \in {metros_a_grados(conversion.metros, conversion.latitud)} :
        /\ ~conversion.hecha
        /\ conversion' = [hecha |-> TRUE, metros |-> conversion.metros,
                          latitud |-> conversion.latitud, raised |-> r.raised,
                          grados_lat |-> r.grados_lat,
                          grados_lon |-> r.grados_lon]
        /\ UNCHANGED <<varsCarga, archivoCapas, archivosZonas, capasActivas, zonas,
                       visibles, marcadores, filas, varsDisco, varsHistoria,
                       script, pc, pasos, varsDescarga, varsPaleta, varsCoord,
                       varsMapa, error>>

SpecMetros == InitMetros /\ [][LlamarMetrosAGrados]_vars

\* metros / 111320.0 as Python computes it, for the sampled meters
CocienteEsperado(metros) ==
    IF metros = -100
    THEN [neg |-> TRUE, m |-> <<606, 6414, 1315, 6879, 1>>, e |-> -63]  \* -0.0008983111749910168
    ELSE IF metros = 0
    THEN [neg |-> FALSE, m |-> <<>>, e |-> 0]  \* 0.0
    ELSE IF metros = 1
    THEN [neg |-> FALSE, m |-> <<3010, 4760, 4446, 1453, 1>>, e |-> -69]  \* 8.98311174991017e-06
    ELSE IF metros = 50
    THEN [neg |-> FALSE, m |-> <<606, 6414, 1315, 6879, 1>>, e |-> -64]  \* 0.0004491555874955084
    ELSE IF metros = 100
    THEN [neg |-> FALSE, m |-> <<606, 6414, 1315, 6879, 1>>, e |-> -63]  \* 0.0008983111749910168
    ELSE IF metros = 1000
    THEN [neg |-> FALSE, m |-> <<6523, 2984, 3894, 1227, 1>>, e |-> -59]  \* 0.008983111749910169
    ELSE IF metros = 111320
    THEN [neg |-> FALSE, m |-> <<0, 0, 0, 0, 1>>, e |-> -52]  \* 1.0
    ELSE DeEntero(0)

\* C20: metros_a_grados(100, 0) gives a longitude value equal to its
\* latitude value, 100/111320; at latitude 0 the two values are equal for
\* every distance; the call raises no division error at any latitude, 90
\* and -90 degrees and their neighbours included; and the latitude value is
\* metros/111320 whatever the latitude.
C20_MetrosAGrados ==
    conversion.hecha
    => /\ ~conversion.raised
       /\ conversion.grados_lat = CocienteEsperado(conversion.metros)
       /\ conversion.latitud = 0
          => conversion.grados_lon =
                 [valor |-> <<CocienteEsperado(conversion.metros)>>,
                  entre |-> <<>>]
       /\ conversion.latitud \notin {-360, 0, 360}
          => conversion.grados_lon =
                 [valor |-> <<>>, entre |-> <<conversion.latitud>>]

C20_Testigo ==
    /\ conversion.hecha
    /\ conversion.metros = 100
    /\ conversion.latitud = 0
    /\ conversion.grados_lon.valor = <<conversion.grados_lat>>
    /\ conversion.grados_lat.e = -63

AreasCarga ==
    {Area(LAT_MIN_DEFAULT, LAT_MAX_DEFAULT, LON_MIN_DEFAULT, LON_MAX_DEFAULT),
     Area(24, 30, -116, -110)}

\* A run of dibuja that has asked for the four datasets and holds their
\* archives, about to load them
InitCarga ==
    /\ archivo = [k \in Claves |-> "completo"]
    /\ archivoPaletas = DocPaletas(FALSE, FALSE, FALSE, FALSE, FALSE, <<>>)
    /\ imagen = "ninguna"
    /\ archivoCapas = SinArchivo
    /\ archivosZonas = SinArchivosZonas
    /\ conversion = SinConversion
    /\ SinCarga
    /\ corridas = 1
    /\ llamadas = 0
    /\ descargas = [k \in Claves |-> 0]
    /\ removido = [k \in Claves |-> FALSE]
    /\ script = "dibuja"
    /\ pc = "cargar_datos"
    /\ pasos = <<>>
    /\ seleccion = claves
    /\ pendientes = <<>>
    /\ rutas = Claves
    /\ fallidas = {}
    /\ ultimo = SinLlamada
    /\ paletas = <<>>
    /\ entradaPaleta = <<>>
    /\ paleta = paleta_por_defecto
    /\ entradasCoord = <<>>
    /\ coords \in AreasCarga
    /\ coords2 = SinCoords
    /\ datos = {}
    /\ vacias = {}
    /\ capas = <<>>
    /\ subtitulo = <<>>
    /\ escrituras = 0
    /\ error = "ninguno"
    /\ SinZonas


CargarDatosCarga == CargarDatosCon(DiscosTablas)

NextCarga == CargarDatosCarga \/ GenerarMapa

SpecCarga == InitCarga /\ [][NextCarga]_vars


\* ------------------------------------------------------------- claim C21
\* The box of the run is a proper one
CajaPropia ==
    Menor(coords.lat_min, coords.lat_max) /\ Menor(coords.lon_min, coords.lon_max)

\* No part of the geometry g lies outside the closed box of the run
DentroDeLaCaja(g) ==
    ~ \/ Menor(Num(g.x1), coords.lon_min) \/ Menor(coords.lon_max, Num(g.x2))
      \/ Menor(Num(g.y1), coords.lat_min) \/ Menor(coords.lat_max, Num(g.y2))

\* Some part of the geometry g lies in the closed box of the run
TocaLaCaja(g) ==
    ~ \/ Menor(Num(g.x2), coords.lon_min) \/ Menor(coords.lon_max, Num(g.x1))
      \/ Menor(Num(g.y2), coords.lat_min) \/ Menor(coords.lat_max, Num(g.y1))

\* The loaders of the run have returned the tables of the cities and roads
CiudadesYCarreterasCargadas ==
    /\ cargados # <<>>
    /\ {"ciudades", "carreteras"} \subseteq DOMAIN cargados

\* C21: on a proper box, every row cargar_ciudades returns is a row of the
\* archive whose point lies in the box, cargar_carreteras returns the rows of
\* the archive that meet the box, all of them and in order, and each of the
\* two returns the empty table, the run going on, when no row qualifies.
C21_FiltroPorCaja ==
    (CiudadesYCarreterasCargadas /\ CajaPropia) =>
        /\ \A i \in 1..Len(cargados["ciudades"].filas) :
              /\ Contiene(tablas["ciudades"].filas, cargados["ciudades"].filas[i])
              /\ DentroDeLaCaja(cargados["ciudades"].filas[i].geom)
        /\ cargados["carreteras"].filas
               = SelectSeq(tablas["carreteras"].filas, LAMBDA f : TocaLaCaja(f.geom))
        /\ (\A i \in 1..Len(tablas["ciudades"].filas) :
               ~DentroDeLaCaja(tablas["ciudades"].filas[i].geom))
              => cargados["ciudades"].filas = <<>>
        /\ pc = "generar_mapa" => error = "ninguno"

\* A run on the default box whose roads archive holds a road that only
\* touches the corner of the box, which is returned, and a road far from the
\* box, which is not
C21_Testigo ==
    /\ CiudadesYCarreterasCargadas /\ CajaPropia
    /\ pc = "generar_mapa"
    /\ tablas["carreteras"].filas
           = <<Fila(Caja(-130, 10, -125, 10), SinAtributos),
               Fila(Caja(-108, 33, -100, 33), SinAtributos)>>
    /\ cargados["carreteras"].filas = <<Fila(Caja(-108, 33, -100, 33), SinAtributos)>>

\* A run whose cities archive holds no city in the box: the empty table
C21_TestigoVacio ==
    /\ CiudadesYCarreterasCargadas /\ CajaPropia
    /\ pc = "generar_mapa"
    /\ Len(tablas["ciudades"].filas) = 2
    /\ cargados["ciudades"].filas = <<>>


\* ------------------------------------------------------------- claim C22
\* The loader of the states has returned a table
EstadosCargados == cargados # <<>> /\ "estados" \in DOMAIN cargados

EsDeMexico(f) == f.attr["admin"] = <<"Mexico">>

NombreDePeninsula(f) ==
    f.attr["name"] \in {<<BajaCalifornia>>, <<BajaCaliforniaSur>>}

\* The name of the row holds the letters b, a, j, a in a row, in any case
NombreConBaja(f) ==
    /\ f.attr["name"] # <<>>
    /\ \E i \in 1..(Len(f.attr["name"][1]) - 3) :
          SubSeq(f.attr["name"][1], i, i + 3)
              \in {<<b, a, j, a2>> : b \in {"b", "B"}, a \in {"a", "A"},
                                     j \in {"j", "J"}, a2 \in {"a", "A"}}

\* C22: the states loader returns rows of Mexico only: the rows named Baja
\* California or Baja California Sur, and nothing else, when the archive has
\* any; otherwise the rows of Mexico whose name contains "baja" in any case,
\* a row without a name left out. The box of the run has no part in it.
C22_EstadosDeLaPeninsula ==
    EstadosCargados =>
        /\ \A i \in 1..Len(cargados["estados"].filas) :
              EsDeMexico(cargados["estados"].filas[i])
        /\ cargados["estados"].filas
             = IF \E i \in 1..Len(tablas["estados"].filas) :
                     /\ EsDeMexico(tablas["estados"].filas[i])
                     /\ NombreDePeninsula(tablas["estados"].filas[i])
               THEN SelectSeq(tablas["estados"].filas,
                              LAMBDA f : EsDeMexico(f) /\ NombreDePeninsula(f))
               ELSE SelectSeq(tablas["estados"].filas,
                              LAMBDA f : EsDeMexico(f) /\ NombreConBaja(f))

\* An archive with the state Baja California and a state of Mexico named
\* "BAJA Sur", loaded on the smaller box: only the first is returned
C22_Testigo ==
    /\ EstadosCargados
    /\ coords = Area(24, 30, -116, -110)
    /\ tablas["estados"].filas
         = <<Estado("Mexico", <<<<"B", "A", "J", "A", " ", "S", "u", "r">>>>),
             Estado("Mexico", <<BajaCalifornia>>)>>
    /\ cargados["estados"].filas = <<Estado("Mexico", <<BajaCalifornia>>)>>

\* An archive without the two names: the state of Mexico named "BAJA Sur" is
\* returned, Baja Verapaz of Guatemala is not
C22_TestigoReserva ==
    /\ EstadosCargados
    /\ tablas["estados"].filas
         = <<Estado("Guatemala", <<<<"B", "a", "j", "a", " ", "V", "e", "r", "a", "p", "a", "z">>>>),
             Estado("Mexico", <<<<"B", "A", "J", "A", " ", "S", "u", "r">>>>)>>
    /\ cargados["estados"].filas
         = <<Estado("Mexico", <<<<"B", "A", "J", "A", " ", "S", "u", "r">>>>)>>


\* ------------------------------------------------------------- claim C23
\* The loader of the countries has returned a table
PaisesCargados == cargados # <<>> /\ "paises" \in DOMAIN cargados

\* The column col of the row names one of the two countries of interest
DeInteres(f, col) ==
    f.attr[col] \in {<<"Mexico">>, <<"United States of America">>}

C23_TestigoSinColumnas ==
    /\ PaisesCargados
    /\ tablas["paises"].columnas = {}
    /\ tablas["paises"].filas
         = <<Pais(-141, 49, -52, 83, <<"Canada">>, <<"Canada">>),
             Pais(-118, 14, -86, 33, <<"Mexico">>, <<"Mexico">>)>>
    /\ cargados["paises"].filas = <<Pais(-118, 14, -86, 33, <<"Mexico">>, <<"Mexico">>)>>


\* ------------------------------------------------------------- claim C24
\* The run has drawn the cities layer with its labels
CiudadesRotuladas ==
    /\ script = "dibuja"
    /\ pc \in {"fin", "abortado"}
    /\ Contiene(capas, "ciudades")

\* The name shown for the row f of the cities table t, <<>> for none
NombreMostrado(t, f) ==
    IF "NAME" \in t.columnas THEN f.attr["NAME"]
    ELSE IF "name" \in t.columnas THEN f.attr["name"] ELSE <<>>

\* The population of the row f by the first population column the table t
\* has, <<>> when it has none or the value is missing
Poblacion(t, f) ==
    IF "POP_MAX" \in t.columnas THEN f.attr["POP_MAX"]
    ELSE IF "POP_MIN" \in t.columnas THEN f.attr["POP_MIN"]
    ELSE IF "pop_max" \in t.columnas THEN f.attr["pop_max"]
    ELSE IF "pop_min" \in t.columnas THEN f.attr["pop_min"]
    ELSE <<>>

Tamano(p) ==
    IF p = <<>> THEN 7
    ELSE IF p[1] > 500000 THEN 10
    ELSE IF p[1] > 100000 THEN 9
    ELSE IF p[1] > 50000 THEN 8
    ELSE 7

\* The rows of the loaded cities table that have a name to show
CiudadesConNombre ==
    SelectSeq(cargados["ciudades"].filas,
              LAMBDA f : NombreMostrado(cargados["ciudades"], f) # <<>>)

\* C24: the label of a city takes its font size from the first population
\* column present, in the order POP_MAX, POP_MIN, pop_max, pop_min: 10 above
\* 500000, 9 above 100000, 8 above 50000, and 7 otherwise (no such column, a
\* missing or zero value); a population equal to a threshold falls in the
\* tier below it.
C24_TamanoPorPoblacion ==
    CiudadesRotuladas =>
        /\ Len(rotulos) = Len(CiudadesConNombre)
        /\ \A i \in 1..Len(rotulos) :
              /\ rotulos[i].nombre
                   = NombreMostrado(cargados["ciudades"], CiudadesConNombre[i])[1]
              /\ rotulos[i].fontsize
                   = Tamano(Poblacion(cargados["ciudades"], CiudadesConNombre[i]))

\* A city of exactly 500000 by POP_MAX labelled at size 9, next to one of
\* 500001 labelled at size 10
C24_Testigo ==
    /\ CiudadesRotuladas
    /\ "POP_MAX" \in cargados["ciudades"].columnas
    /\ Len(rotulos) = 2
    /\ rotulos[1].nombre = "Uno" /\ rotulos[1].fontsize = 10
    /\ rotulos[2].nombre = "Dos" /\ rotulos[2].fontsize = 9

\* A table without POP_MAX: POP_MIN, 60000 in every row, gives size 8 to a
\* city whose POP_MAX would have given 10
C24_TestigoSegundaColumna ==
    /\ CiudadesRotuladas
    /\ cargados["ciudades"].columnas = {"NAME", "ADM0NAME", "POP_MIN", "pop_max"}
    /\ Len(rotulos) = 1
    /\ rotulos[1].nombre = "Uno" /\ rotulos[1].fontsize = 8

\* The lower boundaries: a city of exactly 100000 labelled at size 8 and one
\* of exactly 50000 labelled at size 7
C24_TestigoUmbrales ==
    /\ CiudadesRotuladas
    /\ "POP_MAX" \in cargados["ciudades"].columnas
    /\ Len(rotulos) = 2
    /\ rotulos[1].nombre = "Nueve" /\ rotulos[1].fontsize = 8
    /\ rotulos[2].nombre = "Seis" /\ rotulos[2].fontsize = 7


\* ------------------------------------------------- the legend, on its own
\* n zones inside the default area, numbered from 1
ZonasEnFila(n) ==
    [i \in 1..n |->
        Zona(i, <<(<<"Uno", "Dos", "Tres">>)[(i % 3) + 1]>>, <<25>>, <<-113>>,
             <<<<"r", "o", "j", "o">>>>)]

\* The zone lists of the runs: up to MaxLeyenda zones inside the area, as
\* they are, with the first one unnamed, or after a zone outside the area
ListasLeyenda ==
    {ZonasEnFila(n) : n \in 0..MaxLeyenda}
    \cup {[ZonasEnFila(n) EXCEPT ![1].nombre = <<>>] : n \in 1..MaxLeyenda}
    \cup {<<Zona(0, <<"Cero">>, <<50>>, <<-113>>, <<>>)>> \o ZonasEnFila(n) :
             n \in 0..MaxLeyenda}

\* A run of mapa.py that holds its zones, about to draw the map on the
\* default area
InitLeyenda ==
    /\ archivo = [k \in Claves |-> "ausente"]
    /\ archivoPaletas = DocPaletas(FALSE, FALSE, FALSE, FALSE, FALSE, <<>>)
    /\ imagen = "ninguna"
    /\ archivoCapas = SinArchivo
    /\ archivosZonas = SinArchivosZonas
    /\ conversion = SinConversion
    /\ SinCarga
    /\ corridas = 0
    /\ llamadas = 0
    /\ descargas = [k \in Claves |-> 0]
    /\ removido = [k \in Claves |-> FALSE]
    /\ script = "ninguno"
    /\ pc = "generar_mapa"
    /\ pasos = <<>>
    /\ seleccion = <<>>
    /\ pendientes = <<>>
    /\ rutas = {}
    /\ fallidas = {}
    /\ ultimo = SinLlamada
    /\ paletas = <<>>
    /\ entradaPaleta = <<>>
    /\ paleta = SinPaleta
    /\ entradasCoord = <<>>
    /\ coords = Area(LAT_MIN_DEFAULT, LAT_MAX_DEFAULT, LON_MIN_DEFAULT, LON_MAX_DEFAULT)
    /\ coords2 = SinCoords
    /\ datos = {}
    /\ vacias = {}
    /\ capas = <<>>
    /\ subtitulo = <<>>
    /\ escrituras = 0
    /\ error = "ninguno"
    /\ capasActivas = <<>>
    /\ zonas \in ListasLeyenda
    /\ visibles = <<>>
    /\ marcadores = <<>>
    /\ filas = <<>>

SpecLeyenda == InitLeyenda /\ [][GenerarMapaZonas]_vars

\* ------------------------------------------------------------- claim C25
\* The run has drawn its map
MapaDibujado == pc = "fin"

\* The floats x and y are the same number
MismoValor(x, y) == ~MenorQue(x, y) /\ ~MenorQue(y, x)

\* x and y differ by less than 2^-50
CasiIgual(x, y) ==
    /\ MenorQue(Menos(x, y), [neg |-> FALSE, m |-> <<1>>, e |-> -50])
    /\ MenorQue(Menos(y, x), [neg |-> FALSE, m |-> <<1>>, e |-> -50])

\* C25: the legend is drawn exactly when some zone is visible; it has one
\* row for each visible zone, in order, with the id and the name of the
\* zone; the height of a row is min(0.025, 0.88 / n), hence never above
\* 0.025, every row lies below the one before, and the last row is placed
\* above 0 for every number n >= 1 of rows.
C25_LeyendaCabe ==
    MapaDibujado =>
        /\ (filas # <<>>) <=> (visibles # <<>>)
        /\ Len(filas) = Len(visibles)
        /\ \A i \in 1..Len(filas) :
              /\ filas[i].id = visibles[i].id
              /\ filas[i].nombre
                   = IF visibles[i].nombre = <<>> THEN "?" ELSE visibles[i].nombre[1]
              /\ ~MenorQue(Literal(25, 1000), filas[i].alto_fila)
              /\ IF 1000 * 88 >= 25 * 100 * Len(filas)
                 THEN MismoValor(filas[i].alto_fila, Literal(25, 1000))
                 ELSE CasiIgual(PorEntero(filas[i].alto_fila, Len(filas)),
                                Literal(88, 100))
              /\ CasiIgual(filas[i].y,
                           Menos(Literal(915, 1000),
                                 PorEntero(filas[i].alto_fila, i - 1)))
              /\ i > 1 => MenorQue(filas[i].y, filas[i - 1].y)
              /\ MenorQue(DeEntero(0), filas[i].y)

\* A legend of MaxLeyenda rows: the rows are lower than 0.025 and the last
\* one is above 0
C25_Testigo ==
    /\ MapaDibujado
    /\ Len(filas) = MaxLeyenda
    /\ Len(filas) >= 38
    /\ MenorQue(filas[1].alto_fila, Literal(25, 1000))
    /\ MenorQue(DeEntero(0), filas[Len(filas)].y)

\* A run whose only zone is outside the area: no legend
C25_TestigoSinLeyenda ==
    /\ MapaDibujado
    /\ zonas # <<>>
    /\ visibles = <<>>
    /\ filas = <<>>


\* ------------------------------------------------------------- claim C26
UnaImagen == <<[output_file |-> "mapa_baja_california.png", dpi |-> 200]>>

\* What holds of the image in every state of a run
ImagenDeLaCorrida ==
    /\ pc = "fin" =>
          /\ guardados = UnaImagen
          /\ escrituras = 1
          /\ imagen = script
          /\ Elementos(capas) = CapasDebidas
    /\ pc # "fin" => (guardados = <<>> /\ escrituras = 0)

\* What a step of a run does to the image: the step that completes the run
\* writes it, over the image of whatever script wrote it before, and no
\* other step touches it
PasoDeImagen ==
    /\ (pc # "fin" /\ pc' = "fin") => (guardados' = UnaImagen /\ imagen' = script)
    /\ ~(pc # "fin" /\ pc' = "fin") => imagen' = imagen

\* C26: a run that completes writes the image exactly once, to
\* 'mapa_baja_california.png' at 200 DPI, after every layer it owes is
\* drawn; a run that aborts writes nothing and leaves the earlier image; the
\* three scripts write the same file, so the image is always that of the
\* last run that completed.
C26_UnaImagenAlFinal == []ImagenDeLaCorrida /\ [][PasoDeImagen]_vars

\* The second run of the program, of mapa.py, has completed and the image
\* on disk is its own
C26_Testigo ==
    /\ corridas = 2
    /\ pc = "fin"
    /\ script = "mapa"
    /\ guardados = UnaImagen
    /\ imagen = "mapa"

\* The second run aborted after a first run of dibuja.py completed: the
\* image is still that of the first run
C26_TestigoAbortada ==
    /\ corridas = 2
    /\ pc = "abortado"
    /\ script = "mapa"
    /\ guardados = <<>>
    /\ imagen = "dibuja"


\* ------------------------------------------- pedir_datasets, on its own
AlfabetoDatasets == {"0", "1", "2", "4", "5", ",", " ", "x"}

InitDatasets ==
    /\ archivo = [k \in Claves |-> "ausente"]
    /\ archivoPaletas = DocPaletas(FALSE, FALSE, FALSE, FALSE, FALSE, <<>>)
    /\ imagen = "ninguna"
    /\ archivoCapas = SinArchivo
    /\ archivosZonas = SinArchivosZonas
    /\ conversion = SinConversion
    /\ corridas = 0
    /\ llamadas = 0
    /\ descargas = [k \in Claves |-> 0]
    /\ removido = [k \in Claves |-> FALSE]
    /\ CorridaVacia
    /\ SinCarga

\* seleccion = pedir_datasets() with the text typed at the prompt
LlamarPedirDatasets ==
    \E texto \in Textos(AlfabetoDatasets, MaxTexto) :
        /\ entradaDatasets = <<>>
        /\ entradaDatasets' = <<texto>>
        /\ seleccion' = pedir_datasets(texto)
        /\ UNCHANGED <<tablas, cargados, rotulos, entradaZonas, guardados, informe,
                       varsZonas, varsDisco, varsHistoria, script, pc, pasos,
                       pendientes, rutas, fallidas, ultimo, varsPaleta,
                       varsCoord, varsMapa, error>>

SpecDatasets == InitDatasets /\ [][LlamarPedirDatasets]_vars

\* ------------------------------------------------------------- claim C27
\* The parts of the text typed at the datasets prompt
PartesTecleadas ==
    IF strip(entradaDatasets[1]) = <<>> THEN <<>>
    ELSE split(quitar(strip(entradaDatasets[1]), " "), ",")

\* The part names the i-th dataset
NombraA(parte, i) == int(parte).ok /\ int(parte).v = i

\* C27: the selection pedir_datasets returns starts with 'estados', holds no
\* key twice and only keys of DATASETS; beyond 'estados' it holds the keys
\* whose number was typed, so a part out of range and a part that is not a
\* number add nothing; a blank line gives ['estados'].
C27_SeleccionValida ==
    entradaDatasets # <<>> =>
        /\ seleccion # <<>> /\ seleccion[1] = "estados"
        /\ \A i, j \in 1..Len(seleccion) : seleccion[i] = seleccion[j] => i = j
        /\ \A i \in 1..Len(seleccion) : seleccion[i] \in Claves
        /\ \A i \in 2..Len(claves) :
              Contiene(seleccion, claves[i])
                  <=> \E p \in 1..Len(PartesTecleadas) : NombraA(PartesTecleadas[p], i)
        /\ strip(entradaDatasets[1]) = <<>> => seleccion = <<"estados">>

\* "5,2" typed: the 5 is out of range and ignored, the 2 adds the cities
C27_Testigo ==
    /\ entradaDatasets = << <<"5", ",", "2">> >>
    /\ seleccion = <<"estados", "ciudades">>

\* "x,1" typed: neither part adds anything
C27_TestigoNada ==
    /\ entradaDatasets = << <<"x", ",", "1">> >>
    /\ seleccion = <<"estados">>


\* ------------------------------------------------------------- claim C28
\* The datasets of the selection that the run loaded and drew a layer of
DatasetsDibujados ==
    SelectSeq(seleccion, LAMBDA k : k \in datos /\ k \notin vacias)

\* C28: in a completed run of dibuja.py the subtitle (and the line 'Capas'
\* of the report, the same list) names exactly the datasets that were loaded
\* and drawn, also when the download of a selected dataset failed.
C28_SubtituloFiel ==
    (script = "dibuja" /\ pc = "fin") =>
        subtitulo = [i \in 1..Len(DatasetsDibujados) |-> NombreCapa(DatasetsDibujados[i])]

\* A completed run that selected the cities, whose download failed: the
\* subtitle names the cities and the map has no cities layer
C28_FallaNombrada ==
    /\ script = "dibuja" /\ pc = "fin"
    /\ "ciudades" \in fallidas
    /\ Contiene(subtitulo, NombreCapa("ciudades"))
    /\ ~Contiene(capas, "ciudades")


\* ------------------------------------------------------------- claim C29
\* C29: in a completed run of mapa.py that reports its zones, the number in
\* the line 'Zonas dibujadas' is the number of markers drawn, which is the
\* number of rows of the legend and the zone count of the subtitle.
C29_ZonasDibujadas ==
    (pc = "fin" /\ informe # <<>>) =>
        /\ informe[1] = Len(marcadores)
        /\ Len(marcadores) = Len(filas)
        /\ subtitulo # <<>> => subtitulo[1] = Len(marcadores)

\* A completed run that holds two zones, one of them outside the area: one
\* marker, one row and "1 zonas" in the subtitle, and 2 in the report
C29_FueraContada ==
    /\ pc = "fin"
    /\ Len(zonas) = 2
    /\ Len(marcadores) = 1 /\ Len(filas) = 1 /\ subtitulo = <<1>>
    /\ informe = <<2>>

\* What does hold: markers, legend rows and subtitle count agree, and the
\* report gives the number of zones loaded
C29_CuentasDelMapa ==
    pc = "fin" =>
        /\ Len(marcadores) = Len(visibles)
        /\ Len(filas) = Len(visibles)
        /\ subtitulo = IF visibles # <<>> THEN <<Len(visibles)>> ELSE <<>>
        /\ informe = IF zonas # <<>> THEN <<Len(zonas)>> ELSE <<>>


\* -------------------------------------- pedir_zonas_activas, on its own
AlfabetoCapas == {"1", "2", "3", "4", ",", " ", "x"}

\* capas_zonas.json registers three zone files; b.json is not on disk
RegistroTres ==
    ArchivoDeZonas("objeto", "lista",
                   <<Capa(<<"a.json">>), Capa(<<"b.json">>), Capa(<<"c.json">>)>>,
                   <<>>)

DiscoTres ==
    [n \in {"a.json", "b.json", "c.json"} |->
        CASE n = "a.json" ->
                 ArchivoDeZonas(
                     "objeto", "lista",
                     <<Zona(1, <<"Uno">>, <<25>>, <<-113>>, <<<<"r", "o", "j", "o">>>>)>>,
                     <<"Capa A">>)
          [] n = "b.json" -> SinArchivo
          [] n = "c.json" ->
                 ArchivoDeZonas(
                     "objeto", "lista",
                     <<Zona(2, <<"Dos">>, <<26>>, <<-112>>, <<>>)>>,
                     <<"Capa C">>)]

InitCapas ==
    /\ archivo = [k \in Claves |-> "ausente"]
    /\ archivoPaletas = DocPaletas(FALSE, FALSE, FALSE, FALSE, FALSE, <<>>)
    /\ imagen = "ninguna"
    /\ archivoCapas = RegistroTres
    /\ archivosZonas = DiscoTres
    /\ conversion = SinConversion
    /\ corridas = 0
    /\ llamadas = 0
    /\ descargas = [k \in Claves |-> 0]
    /\ removido = [k \in Claves |-> FALSE]
    /\ CorridaVacia
    /\ SinCarga

\* capas_activas = pedir_zonas_activas(capas) with the text typed at the
\* prompt, then zonas = cargar_zonas(capas_activas)
LlamarPedirZonasActivas ==
    \E texto \in Textos(AlfabetoCapas, MaxTexto) :
        /\ entradaZonas = <<>>
        /\ entradaZonas' = <<texto>>
        /\ capasActivas' = pedir_zonas_activas(cargar_capas_zonas(archivoCapas),
                                               archivosZonas, texto)
        /\ zonas' = IF capasActivas' # <<>>
                    THEN cargar_zonas(archivosZonas, capasActivas') ELSE <<>>
        /\ UNCHANGED <<tablas, cargados, rotulos, entradaDatasets, guardados,
                       informe, archivoCapas, archivosZonas, visibles, marcadores,
                       filas, conversion, varsDisco, varsHistoria, script, pc,
                       pasos, varsDescarga, varsPaleta, varsCoord, varsMapa, error>>

SpecCapas == InitCapas /\ [][LlamarPedirZonasActivas]_vars

\* ------------------------------------------------------------- claim C30
\* The file of the registry entry is on disk
EnDisco(capa) ==
    /\ capa.archivo # <<>>
    /\ capa.archivo[1] \in DOMAIN archivosZonas
    /\ archivosZonas[capa.archivo[1]].estado # "ausente"

\* C30: whatever is typed, pedir_zonas_activas returns only registry entries
\* whose file exists, and none of them twice, so that no zone file is loaded
\* twice and no zone comes twice in the zones of the run.
C30_CapasSinRepetir ==
    entradaZonas # <<>> =>
        /\ \A i \in 1..Len(capasActivas) :
              /\ Contiene(cargar_capas_zonas(archivoCapas), capasActivas[i])
              /\ EnDisco(capasActivas[i])
        /\ \A i, j \in 1..Len(capasActivas) :
              capasActivas[i] = capasActivas[j] => i = j
        /\ \A i, j \in 1..Len(zonas) : zonas[i] = zonas[j] => i = j

\* "1,1" typed: the first entry is active twice and its zone is loaded twice
C30_DosVeces ==
    /\ entradaZonas = << <<"1", ",", "1">> >>
    /\ capasActivas = <<Capa(<<"a.json">>), Capa(<<"a.json">>)>>
    /\ Len(zonas) = 2
    /\ zonas[1] = zonas[2]

\* What does hold: the entries returned are entries of the registry whose
\* file exists, in the order typed ("3,1" gives c.json before a.json, "2"
\* gives nothing)
C30_SoloExistentes ==
    entradaZonas # <<>> =>
        /\ \A i \in 1..Len(capasActivas) :
              /\ Contiene(cargar_capas_zonas(archivoCapas), capasActivas[i])
              /\ EnDisco(capasActivas[i])
        /\ entradaZonas[1] = <<"3", ",", "1">>
              => capasActivas = <<Capa(<<"c.json">>), Capa(<<"a.json">>)>>
        /\ entradaZonas[1] = <<"2">> => capasActivas = <<>>

=============================================================================
